---- MODULE Spec2Model ----
(***************************************************************************)
(* imgmaster: the photo group model, the metadata aggregation and the      *)
(* rename planning of PhotoRenameService, as state machines.               *)
(*                                                                         *)
(* Conventions.  A Python None, an empty string and the number 0 are all   *)
(* falsy and the code tests them with "if x" / "x or default", so an       *)
(* absent string is "" and an absent number or date is 0.  The tri-state   *)
(* flash_fired, tested with "is None", is "None" / "False" / "True".  An   *)
(* Optional object (the metadata cache, a returned Photo) is a sequence of *)
(* length 0 or 1.  A dict is a sequence in insertion order.                *)
(***************************************************************************)
EXTENDS Integers, Sequences, FiniteSets, TLC

VARIABLES
    photos,          \* PhotoGroup._photos: extension -> Photo, in insertion order
    metadata_cache,  \* PhotoGroup._metadata_cache
    meta,            \* which contents the files have: indices into the contents below
    queried,         \* the files whose metadata the last call asked the backend for
    query_count,     \* the number of calls made to the backend so far
    ret,             \* the last call and what it returned or raised
    scheme,          \* the naming scheme of a rename run
    groups,          \* the groups of the loaded database, in order
    flags,           \* sequence_digits, dry_run, copy_mode, skip_invalid
    group_metadata,  \* the aggregate record handed to the renderer
    operations,      \* the rename operations planned so far
    pc,              \* where the running service call is
    locals,          \* the local variables of the running rename_photos
    fs               \* what the run has done to the file system so far

groupVars == <<photos, metadata_cache, meta, queried, query_count, ret>>

renameVars == <<scheme, groups, flags, group_metadata, operations, pc, locals, fs>>

vars == <<photos, metadata_cache, meta, queried, query_count, ret,
          scheme, groups, flags, group_metadata, operations, pc, locals, fs>>

(***************************************************************************)
(* Bounds                                                                  *)
(***************************************************************************)
MaxPhotos == 3      \* a group is grown to at most this many photos

MaxQueries == 4     \* the backend is called at most this many times

(***************************************************************************)
(* models/photo.py                                                         *)
(***************************************************************************)
JPEG_FORMATS == {".jpg", ".jpeg"}

RAW_FORMATS == {".cr2", ".cr3", ".crw", ".nef", ".nrw", ".arw", ".srf", ".sr2",
                ".raf", ".orf", ".rw2", ".pef", ".ptx", ".rwl", ".dcr", ".kdc",
                ".mrw", ".srw", ".3fr", ".mef", ".iiq", ".x3f", ".dng", ".raw"}

LIVE_PHOTO_FORMATS == {".mov"}

HEIC_FORMATS == {".heif", ".heic", ".hif"}

SIDECAR_FORMATS == {".xmp", ".xml", ".thm", ".pp3", ".dop", ".pto",
                    ".lrtemplate", ".xmp.xml"}

OTHER_PHOTO_FORMATS == {".png", ".gif", ".bmp", ".tiff", ".tif", ".webp",
                        ".ico", ".svg"}

get_all_supported_formats ==
    JPEG_FORMATS \cup RAW_FORMATS \cup LIVE_PHOTO_FORMATS \cup HEIC_FORMATS
        \cup SIDECAR_FORMATS \cup OTHER_PHOTO_FORMATS

\* str.lower() on the extensions and suffixes that occur
Lower(s) ==
    CASE s = ".JPG" -> ".jpg"
      [] s = "JPG"  -> "jpg"
      [] s = ".XMP" -> ".xmp"
      [] OTHER      -> s

\* the normalisation "if not ext.startswith('.'): ext = '.' + ext"
WithDot(s) ==
    CASE s = "jpg" -> ".jpg"
      [] s = "xmp" -> ".xmp"
      [] s = "mov" -> ".mov"
      [] s = "gif" -> ".gif"
      [] OTHER     -> s

NormalizeExtension(extension) == WithDot(Lower(extension))

get_format_classification(extension) ==
    LET ext == NormalizeExtension(extension)
    IN  CASE ext \in JPEG_FORMATS        -> "jpeg"
          [] ext \in RAW_FORMATS         -> "raw"
          [] ext \in LIVE_PHOTO_FORMATS  -> "live_photo"
          [] ext \in HEIC_FORMATS        -> "heic"
          [] ext \in SIDECAR_FORMATS     -> "sidecar"
          [] ext \in OTHER_PHOTO_FORMATS -> "other"
          [] OTHER                       -> "None"

\* the files on disk that Photos are made of: directory, stem and suffix
Files ==
    { [dir |-> "d1", stem |-> "a", suffix |-> ".jpg"],
      [dir |-> "d2", stem |-> "a", suffix |-> ".JPG"],
      [dir |-> "d1", stem |-> "a", suffix |-> ".png"],
      [dir |-> "d1", stem |-> "a", suffix |-> ".mov"],
      [dir |-> "d1", stem |-> "a", suffix |-> ".xmp"],
      [dir |-> "d1", stem |-> "a", suffix |-> ".thm"],
      [dir |-> "d1", stem |-> "b", suffix |-> ".jpg"],
      [dir |-> "d1", stem |-> "vacation", suffix |-> ".jpg"],
      [dir |-> "d1", stem |-> "vacation", suffix |-> ".xmp"],
      [dir |-> "d1", stem |-> "beach", suffix |-> ".jpg"],
      [dir |-> "d1", stem |-> "beach", suffix |-> ".xmp"] }

\* Photo.__init__ on an existing file with a supported extension
Photo(f) ==
    [ absolute_path         |-> f,
      basename              |-> f.stem,
      extension             |-> Lower(f.suffix),
      filename              |-> <<f.stem, f.suffix>>,
      format_classification |-> get_format_classification(Lower(f.suffix)),
      history               |-> <<>> ]

(***************************************************************************)
(* models/metadata.py: the records                                         *)
(***************************************************************************)
CameraInfo_is_empty(camera) ==
    ~(camera.make # "" \/ camera.lens_model # "")

DateInfo_is_empty(dates) ==
    ~(dates.date_taken # 0)

\* any([...]) is a truth test, so flash_fired False counts as nothing
TechnicalInfo_is_empty(technical) ==
    ~(technical.iso # 0 \/ technical.flash_fired = "True")

KeywordInfo_is_empty(keywords) ==
    keywords.keywords = <<>> \/ Len(keywords.keywords) = 0

PhotoMetadata_is_empty(m) ==
    /\ CameraInfo_is_empty(m.camera)
    /\ DateInfo_is_empty(m.dates)
    /\ TechnicalInfo_is_empty(m.technical)
    /\ KeywordInfo_is_empty(m.keywords)

\* PhotoMetadata(camera=..., dates=..., technical=..., keywords=...)
PhotoMetadata(make, lens_model, date_taken, iso, flash_fired, kw) ==
    [ camera    |-> [make |-> make, lens_model |-> lens_model],
      dates     |-> [date_taken |-> date_taken],
      technical |-> [iso |-> iso, flash_fired |-> flash_fired],
      keywords  |-> [keywords |-> kw] ]

CameraInfoWithSource ==
    [make |-> "", make_source |-> <<>>, lens_model |-> "", lens_model_source |-> <<>>]

DateInfoWithSource ==
    [date_taken |-> 0, date_taken_source |-> <<>>]

TechnicalInfoWithSource ==
    [iso |-> 0, iso_source |-> <<>>, flash_fired |-> "None", flash_fired_source |-> <<>>]

\* the fields of the dataclass PhotoMetadataWithSource that have no default
PhotoMetadataWithSource_required == {"camera", "dates", "technical", "keywords"}

\* the generated __init__ of the dataclass: a TypeError when a field without
\* default is not passed, the object otherwise
PhotoMetadataWithSource(kwargs) ==
    IF PhotoMetadataWithSource_required \subseteq DOMAIN kwargs
    THEN [raised |-> "", value |-> <<kwargs>>]
    ELSE [raised |-> "TypeError", value |-> <<>>]

(***************************************************************************)
(* The metadata backend (MetadataExtractor.extract_from_photo and          *)
(* extract_from_xmp): what it reads from each file.  raises marks a file   *)
(* on which the extractor call throws.                                     *)
(***************************************************************************)
EmptyMetadata == PhotoMetadata("", "", 0, 0, "None", <<>>)

Reads(m) == [raises |-> FALSE, metadata |-> m]

Throws == [raises |-> TRUE, metadata |-> EmptyMetadata]

\* the contents a file may have, for the files whose contents vary
JpgContents == << Reads(EmptyMetadata),
                  Reads(PhotoMetadata("", "", 1, 100, "False", <<>>)),
                  Reads(PhotoMetadata("Canon", "", 2, 0, "None", <<>>)) >>

PngContents == << Throws, Reads(PhotoMetadata("", "", 0, 0, "None", <<"k">>)) >>

XmpContents == << Reads(PhotoMetadata("Canon", "RF", 3, 0, "True", <<>>)),
                  Reads(EmptyMetadata) >>

Backend(j, p, x) ==
    [ f \in Files |->
        CASE f.suffix = ".jpg" /\ f.stem = "a" -> JpgContents[j]
          [] f.suffix = ".JPG" -> Reads(PhotoMetadata("Nikon", "", 0, 200, "None", <<>>))
          [] f.suffix = ".png" -> PngContents[p]
          [] f.suffix = ".xmp" /\ f.stem = "a" -> XmpContents[x]
          [] f.suffix = ".thm" -> Reads(PhotoMetadata("Sony", "", 0, 0, "None", <<>>))
          [] f.suffix = ".jpg" /\ f.stem = "vacation" ->
                Reads(PhotoMetadata("", "", 1, 0, "None", <<>>))
          [] f.suffix = ".jpg" /\ f.stem = "beach" ->
                Reads(PhotoMetadata("", "", 2, 0, "None", <<>>))
          [] OTHER -> Reads(EmptyMetadata) ]

\* the choices of file contents: (jpg, png, xmp)
Backends == { <<1, 1, 1>>, <<2, 2, 1>>, <<3, 2, 2>>, <<3, 1, 1>> }

\* the backend of the current run
backend == Backend(meta[1], meta[2], meta[3])

(***************************************************************************)
(* models/photo_group.py: PhotoGroup                                       *)
(***************************************************************************)
\* the basename the group under test was constructed with
GroupBasename == "a"

\* dict operations on a sequence of Photos keyed by their extension
DictIndex(d, key) ==
    LET S == { i \in 1..Len(d) : d[i].extension = key }
    IN  IF S = {} THEN 0 ELSE CHOOSE i \in S : TRUE

DictSet(d, key, photo) ==
    IF DictIndex(d, key) = 0
    THEN Append(d, photo)
    ELSE [d EXCEPT ![DictIndex(d, key)] = photo]

DictPop(d, key) ==
    LET k == DictIndex(d, key)
    IN  IF k = 0 THEN d
        ELSE SubSeq(d, 1, k - 1) \o SubSeq(d, k + 1, Len(d))

has_format_type(ps, format_type) ==
    \E i \in 1..Len(ps) : ps[i].format_classification = format_type

has_raw(ps) == has_format_type(ps, "raw")

has_jpeg(ps) == has_format_type(ps, "jpeg")

has_sidecar(ps) == has_format_type(ps, "sidecar")

has_heic(ps) == has_format_type(ps, "heic")

has_live_photo(ps) == has_format_type(ps, "live_photo")

is_other_format(ps) == has_format_type(ps, "other")

is_valid_no_other(ps) ==
    has_jpeg(ps) \/ has_raw(ps) \/ has_heic(ps)

is_valid(ps) ==
    has_jpeg(ps) \/ has_raw(ps) \/ has_heic(ps) \/ is_other_format(ps)

has_only_supplementary_files_sidecar_only(ps) ==
    ~is_valid(ps) /\ has_sidecar(ps)

has_only_supplementary_files(ps) ==
    ~is_valid(ps) /\ (has_sidecar(ps) \/ has_live_photo(ps))

\* sorted(metadata_sources, key=lambda x: x[2] == 'sidecar'): a stable sort
\* on a boolean key
sorted_sources(metadata_sources) ==
    SelectSeq(metadata_sources, LAMBDA x : x.source_type # "sidecar")
        \o SelectSeq(metadata_sources, LAMBDA x : x.source_type = "sidecar")

RECURSIVE CameraLoop(_, _, _)
CameraLoop(sources, i, camera) ==
    IF i > Len(sources) THEN camera
    ELSE LET metadata == sources[i].metadata
             filename == sources[i].filename
             c1 == IF camera.make = "" /\ metadata.camera.make # ""
                   THEN [camera EXCEPT !.make = metadata.camera.make,
                                       !.make_source = filename]
                   ELSE camera
             c2 == IF c1.lens_model = "" /\ metadata.camera.lens_model # ""
                   THEN [c1 EXCEPT !.lens_model = metadata.camera.lens_model,
                                   !.lens_model_source = filename]
                   ELSE c1
         IN  CameraLoop(sources, i + 1, c2)

_aggregate_camera_info_with_source(metadata_sources) ==
    CameraLoop(sorted_sources(metadata_sources), 1, CameraInfoWithSource)

RECURSIVE DateLoop(_, _, _)
DateLoop(sources, i, dates) ==
    IF i > Len(sources) THEN dates
    ELSE LET metadata == sources[i].metadata
             filename == sources[i].filename
             d1 == IF dates.date_taken = 0 /\ metadata.dates.date_taken # 0
                   THEN [dates EXCEPT !.date_taken = metadata.dates.date_taken,
                                      !.date_taken_source = filename]
                   ELSE dates
         IN  DateLoop(sources, i + 1, d1)

_aggregate_date_info_with_source(metadata_sources) ==
    DateLoop(sorted_sources(metadata_sources), 1, DateInfoWithSource)

RECURSIVE TechnicalLoop(_, _, _)
TechnicalLoop(sources, i, technical) ==
    IF i > Len(sources) THEN technical
    ELSE LET metadata == sources[i].metadata
             filename == sources[i].filename
             t1 == IF technical.iso = 0 /\ metadata.technical.iso # 0
                   THEN [technical EXCEPT !.iso = metadata.technical.iso,
                                          !.iso_source = filename]
                   ELSE technical
             t2 == IF t1.flash_fired = "None" /\ metadata.technical.flash_fired # "None"
                   THEN [t1 EXCEPT !.flash_fired = metadata.technical.flash_fired,
                                   !.flash_fired_source = filename]
                   ELSE t1
         IN  TechnicalLoop(sources, i + 1, t2)

_aggregate_technical_info_with_source(metadata_sources) ==
    TechnicalLoop(sorted_sources(metadata_sources), 1, TechnicalInfoWithSource)

\* the filenames of a list of Photos, in order
Filenames(ps) == [i \in 1..Len(ps) |-> ps[i].filename]

\* the (metadata, filename, source_type) entries the two extraction loops
\* append: one per file that was read without an exception and is not empty
SourcesOf(ps, extractor, source_type) ==
    LET kept == SelectSeq(ps, LAMBDA photo :
                    /\ ~extractor[photo.absolute_path].raises
                    /\ ~PhotoMetadata_is_empty(extractor[photo.absolute_path].metadata))
    IN  [i \in 1..Len(kept) |->
            [ metadata    |-> extractor[kept[i].absolute_path].metadata,
              filename    |-> kept[i].filename,
              source_type |-> source_type ]]

\* the end of extract_metadata: the record is cached and returned, unless
\* its construction raised
extract_metadata_outcome(made, cache, queried_) ==
    [ raised  |-> made.raised,
      value   |-> made.value,
      cache   |-> IF made.raised = "" THEN made.value ELSE cache,
      queried |-> queried_ ]

\* the aggregation of extract_metadata over the entries it has collected
aggregate_sources(basename, cache, metadata_sources, queried_) ==
    extract_metadata_outcome(
        PhotoMetadataWithSource(
            [ camera      |-> IF metadata_sources # <<>>
                              THEN _aggregate_camera_info_with_source(metadata_sources)
                              ELSE CameraInfoWithSource,
              dates       |-> IF metadata_sources # <<>>
                              THEN _aggregate_date_info_with_source(metadata_sources)
                              ELSE DateInfoWithSource,
              technical   |-> IF metadata_sources # <<>>
                              THEN _aggregate_technical_info_with_source(metadata_sources)
                              ELSE TechnicalInfoWithSource,
              source_file |-> <<"group:", basename>> ]),
        cache, queried_)

\* the two extraction loops of extract_metadata over the photo files and
\* the sidecars that are read
extract_sources(basename, cache, photo_files, read_sidecars, extractor) ==
    aggregate_sources(basename, cache,
        SourcesOf(photo_files, extractor, "photo")
            \o SourcesOf(read_sidecars, extractor, "sidecar"),
        Filenames(photo_files) \o Filenames(read_sidecars))

\* PhotoGroup.extract_metadata: what it returns or raises, the cache it
\* leaves and the files it asked the backend for.  Of the sidecars only
\* .xmp and .xml files are read.
ExtractMetadataOf(basename, ps, cache, extractor, force_refresh) ==
    IF cache # <<>> /\ ~force_refresh
    THEN [raised |-> "", value |-> cache, cache |-> cache, queried |-> <<>>]
    ELSE extract_sources(basename, cache,
             SelectSeq(ps, LAMBDA photo :
                 photo.format_classification \notin {"sidecar"}),
             SelectSeq(ps, LAMBDA sidecar :
                 /\ sidecar.format_classification = "sidecar"
                 /\ Lower(sidecar.extension) \in {".xmp", ".xml"}),
             extractor)

add_photo_unchecked(f) ==
    LET photo == Photo(f)
    IN  /\ DictIndex(photos, photo.extension) # 0 \/ Len(photos) < MaxPhotos
        /\ photos' = DictSet(photos, photo.extension, photo)
        /\ metadata_cache' = <<>>
        /\ ret' = [op |-> "add_photo", raised |-> "", value |-> <<>>]
        /\ queried' = <<>>
        /\ UNCHANGED <<meta, query_count, renameVars>>

\* PhotoGroup.add_photo
add_photo(f) ==
    LET photo == Photo(f)
    IN  IF photo.basename # GroupBasename
        THEN /\ ret' = [op |-> "add_photo", raised |-> "ValueError", value |-> <<>>]
             /\ queried' = <<>>
             /\ UNCHANGED <<photos, metadata_cache, meta, query_count, renameVars>>
        ELSE /\ DictIndex(photos, photo.extension) # 0 \/ Len(photos) < MaxPhotos
             /\ photos' = DictSet(photos, photo.extension, photo)
             /\ metadata_cache' = <<>>
             /\ ret' = [op |-> "add_photo", raised |-> "", value |-> <<>>]
             /\ queried' = <<>>
             /\ UNCHANGED <<meta, query_count, renameVars>>

\* the arguments remove_photo is called with: with and without the dot, in
\* either case, and an extension no Photo has
RemoveArguments == {".jpg", "JPG", ".XMP", "mov", ".png", ".thm", "gif"}

\* PhotoGroup.remove_photo
remove_photo(extension) ==
    LET ext == NormalizeExtension(extension)
        k == DictIndex(photos, ext)
        removed_photo == IF k = 0 THEN <<>> ELSE <<photos[k]>>
    IN  /\ photos' = DictPop(photos, ext)
        /\ metadata_cache' = IF removed_photo # <<>> THEN <<>> ELSE metadata_cache
        /\ ret' = [op |-> "remove_photo", raised |-> "", value |-> removed_photo]
        /\ queried' = <<>>
        /\ UNCHANGED <<meta, query_count, renameVars>>

\* the effect of an extract_metadata call with outcome r on the group
extract_metadata_effect(r) ==
    /\ query_count + Len(r.queried) <= MaxQueries
    /\ query_count' = query_count + Len(r.queried)
    /\ metadata_cache' = r.cache
    /\ ret' = [op |-> "extract_metadata", raised |-> r.raised, value |-> r.value]
    /\ queried' = r.queried
    /\ UNCHANGED <<photos, meta, renameVars>>

\* PhotoGroup.extract_metadata
extract_metadata(force_refresh) ==
    extract_metadata_effect(
        ExtractMetadataOf(GroupBasename, photos, metadata_cache, backend, force_refresh))

InitGroup ==
    /\ photos = <<>>
    /\ metadata_cache = <<>>
    /\ meta \in Backends
    /\ queried = <<>>
    /\ query_count = 0
    /\ ret = [op |-> "init", raised |-> "", value |-> <<>>]
    /\ scheme = <<>>
    /\ groups = <<>>
    /\ flags = [sequence_digits |-> 3, dry_run |-> FALSE, copy_mode |-> FALSE,
                skip_invalid |-> TRUE]
    /\ group_metadata = <<>>
    /\ operations = <<>>
    /\ pc = "group"
    /\ locals = <<>>
    /\ fs = <<>>

NextGroup ==
    \/ \E f \in Files : add_photo(f)
    \/ \E extension \in RemoveArguments : remove_photo(extension)
    \/ \E force_refresh \in BOOLEAN : extract_metadata(force_refresh)

SpecGroup == InitGroup /\ [][NextGroup]_vars

(***************************************************************************)
(* Properties of PhotoGroup (SpecGroup)                                    *)
(***************************************************************************)

\* C6: after any sequence of add_photo and remove_photo calls, is_valid is
\* true iff the group now holds a Photo whose format class is jpeg, raw,
\* heic or other.
C6_IsValidIffPrimaryPhoto ==
    is_valid(photos) <=>
        \E i \in 1..Len(photos) :
            photos[i].format_classification \in {"jpeg", "raw", "heic", "other"}

\* a valid group has lost its only real photo and still holds other files
C6_Witness ==
    /\ ret.op = "remove_photo"
    /\ ret.value # <<>>
    /\ ret.value[1].format_classification = "other"
    /\ photos # <<>>
    /\ ~is_valid(photos)

\* C7 as stated: for every group, the empty one included, exactly one of
\* is_valid and has_only_supplementary_files is true, and the empty group
\* is invalid.
C7_ComplementaryAndTotal ==
    /\ is_valid(photos) # has_only_supplementary_files(photos)
    /\ photos = <<>> => ~is_valid(photos)

\* C7 amended: for every non-empty group exactly one of the two is true;
\* for the empty group both are false.
C7_ComplementaryOnNonEmpty ==
    IF photos = <<>>
    THEN ~is_valid(photos) /\ ~has_only_supplementary_files(photos)
    ELSE is_valid(photos) # has_only_supplementary_files(photos)

\* a group that holds a live photo and nothing that makes it valid
C7_Witness ==
    /\ ret.op = "add_photo"
    /\ ret.raised = ""
    /\ has_live_photo(photos)
    /\ ~has_sidecar(photos)
    /\ has_only_supplementary_files(photos)

\* C8: every contained Photo has the group's basename and no two share an
\* extension; an add at an occupied extension replaces the Photo there; an
\* add with another basename raises and changes neither photos nor cache; a
\* remove of an absent extension returns nothing and changes nothing.
C8_GroupMembership ==
    /\ [](/\ \A i \in 1..Len(photos) : photos[i].basename = GroupBasename
          /\ \A i, j \in 1..Len(photos) :
                 photos[i].extension = photos[j].extension => i = j)
    /\ [][ /\ \A f \in Files :
                add_photo(f) =>
                    IF Photo(f).basename # GroupBasename
                    THEN /\ ret'.raised = "ValueError"
                         /\ photos' = photos
                         /\ metadata_cache' = metadata_cache
                    ELSE /\ ret'.raised = ""
                         /\ photos'[DictIndex(photos', Photo(f).extension)] = Photo(f)
                         /\ Len(photos') = Len(photos)
                              + (IF DictIndex(photos, Photo(f).extension) = 0 THEN 1 ELSE 0)
           /\ \A extension \in RemoveArguments :
                (remove_photo(extension)
                    /\ DictIndex(photos, NormalizeExtension(extension)) = 0) =>
                    /\ ret'.raised = ""
                    /\ ret'.value = <<>>
                    /\ photos' = photos
                    /\ metadata_cache' = metadata_cache ]_vars

\* an add with the wrong basename was refused on a group of two photos
C8_Witness ==
    /\ ret.op = "add_photo"
    /\ ret.raised = "ValueError"
    /\ Len(photos) = 2

\* C9 as stated, its caching part: every add and every removing remove
\* leaves the cache empty, and an aggregate call that directly follows an
\* aggregate call returns the record of that call again without calling the
\* backend.
C9_CachedUntilPhotosChange ==
    [][ /\ (ret'.op = "add_photo" /\ ret'.raised = "") => metadata_cache' = <<>>
        /\ (ret'.op = "remove_photo" /\ ret'.value # <<>>) => metadata_cache' = <<>>
        /\ (ret.op = "extract_metadata" /\ extract_metadata(FALSE)) =>
               /\ ret.raised = ""
               /\ ret'.raised = ""
               /\ ret'.value = ret.value
               /\ query_count' = query_count ]_vars

\* C10 as stated: aggregate returns a record in which each field holds the
\* first non-empty value in the order non-sidecar Photos, then sidecar
\* Photos, empty records skipped, with the filename it came from.
C10_FirstWriteWins ==
    ret.op = "extract_metadata" =>
        LET order == SelectSeq(photos, LAMBDA p : p.format_classification # "sidecar")
                        \o SelectSeq(photos, LAMBDA p : p.format_classification = "sidecar")
            recs  == SelectSeq(order, LAMBDA p :
                        /\ ~backend[p.absolute_path].raises
                        /\ ~PhotoMetadata_is_empty(backend[p.absolute_path].metadata))
            md(i) == backend[recs[i].absolute_path].metadata
            First(S) == IF S = {} THEN 0
                        ELSE CHOOSE i \in S : \A j \in S : i <= j
            mk == First({ i \in 1..Len(recs) : md(i).camera.make # "" })
            dt == First({ i \in 1..Len(recs) : md(i).dates.date_taken # 0 })
            is == First({ i \in 1..Len(recs) : md(i).technical.iso # 0 })
        IN  /\ ret.raised = ""
            /\ Len(ret.value) = 1
            /\ IF mk = 0 THEN ret.value[1].camera.make = ""
               ELSE /\ ret.value[1].camera.make = md(mk).camera.make
                    /\ ret.value[1].camera.make_source = recs[mk].filename
            /\ IF dt = 0 THEN ret.value[1].dates.date_taken = 0
               ELSE /\ ret.value[1].dates.date_taken = md(dt).dates.date_taken
                    /\ ret.value[1].dates.date_taken_source = recs[dt].filename
            /\ IF is = 0 THEN ret.value[1].technical.iso = 0
               ELSE /\ ret.value[1].technical.iso = md(is).technical.iso
                    /\ ret.value[1].technical.iso_source = recs[is].filename

\* C11 as stated, its ordering part: an aggregate call that reads the files
\* asks for the non-sidecar Photos and then for the sidecar Photos, inside
\* each of the two in lexicographic order of extension, whatever order the
\* Photos were added in.
C11_QueriedInExtensionOrder ==
    ret.op = "extract_metadata" =>
        LET place(suffix) ==
                CASE Lower(suffix) = ".jpg" -> 1
                  [] Lower(suffix) = ".mov" -> 2
                  [] Lower(suffix) = ".png" -> 3
                  [] Lower(suffix) = ".thm" -> 4
                  [] Lower(suffix) = ".xmp" -> 5
            sidecar(suffix) == get_format_classification(Lower(suffix)) = "sidecar"
        IN  \A i, j \in 1..Len(queried) :
                i < j =>
                    \/ ~sidecar(queried[i][2]) /\ sidecar(queried[j][2])
                    \/ /\ sidecar(queried[i][2]) = sidecar(queried[j][2])
                       /\ place(queried[i][2]) < place(queried[j][2])

\* C26 as stated: a failure of the metadata backend never leaves the
\* aggregation: extract_metadata returns a record for every group; no field
\* of the record comes from a Photo whose extraction raised; and the record
\* of the empty group is the all-empty one.
C26_BackendFailuresContained ==
    ret.op = "extract_metadata" =>
        /\ ret.raised = ""
        /\ Len(ret.value) = 1
        /\ \A i \in 1..Len(photos) :
               backend[photos[i].absolute_path].raises =>
                   /\ ret.value[1].camera.make_source # photos[i].filename
                   /\ ret.value[1].camera.lens_model_source # photos[i].filename
                   /\ ret.value[1].dates.date_taken_source # photos[i].filename
                   /\ ret.value[1].technical.iso_source # photos[i].filename
        /\ photos = <<>> =>
               /\ CameraInfo_is_empty(ret.value[1].camera)
               /\ DateInfo_is_empty(ret.value[1].dates)
               /\ ret.value[1].technical.iso = 0

(***************************************************************************)
(* Text that is cut, substituted and joined is a sequence of one-character *)
(* strings; a {placeholder} of a scheme is one element of the sequence.    *)
(* Metadata values hold no braces, so replacing a placeholder element is   *)
(* str.replace on the text.                                                *)
(***************************************************************************)
\* the characters of the strings that occur as basenames and metadata values
Chars(s) ==
    CASE s = ""      -> <<>>
      [] s = "a"     -> <<"a">>
      [] s = "b"     -> <<"b">>
      [] s = "c"     -> <<"c">>
      [] s = "vacation" -> <<"v", "a", "c", "a", "t", "i", "o", "n">>
      [] s = "beach" -> <<"b", "e", "a", "c", "h">>
      [] s = "s_1"   -> <<"s", "_", "1">>
      [] s = "Canon" -> <<"C", "a", "n", "o", "n">>
      [] s = "Nikon" -> <<"N", "i", "k", "o", "n">>
      [] s = "Sony"  -> <<"S", "o", "n", "y">>
      [] s = "RF"    -> <<"R", "F">>
      [] s = "f/2"   -> <<"f", "/", "2">>
      [] s = ".."    -> <<".", ".">>
      [] s = "a:b"   -> <<"a", ":", "b">>
      [] s = ":"     -> <<":">>
      [] s = "XX"    -> <<"X", "X">>
      [] s = ".jpg"  -> <<".", "j", "p", "g">>
      [] s = ".png"  -> <<".", "p", "n", "g">>
      [] s = ".mov"  -> <<".", "m", "o", "v">>
      [] s = ".xmp"  -> <<".", "x", "m", "p">>
      [] s = ".thm"  -> <<".", "t", "h", "m">>
      [] s = "/out"  -> <<"/", "o", "u", "t">>
      [] s = "Unknown" -> <<"U", "n", "k", "n", "o", "w", "n">>
      [] s = "UnknownMake" -> <<"U", "n", "k", "n", "o", "w", "n", "M", "a", "k", "e">>
      [] s = "UnknownLens" -> <<"U", "n", "k", "n", "o", "w", "n", "L", "e", "n", "s">>
      [] s = "UnknownISO"  -> <<"U", "n", "k", "n", "o", "w", "n", "I", "S", "O">>

RECURSIVE Concat(_)
Concat(ss) == IF ss = <<>> THEN <<>> ELSE Head(ss) \o Concat(Tail(ss))

\* text.replace(old, new) for a placeholder old
str_replace(text, old, new) ==
    Concat([i \in 1..Len(text) |-> IF text[i] = old THEN new ELSE <<text[i]>>])

\* text.split(sep)
RECURSIVE str_split(_, _)
str_split(text, sep) ==
    LET S == { i \in 1..Len(text) : text[i] = sep }
    IN  IF S = {} THEN <<text>>
        ELSE LET k == CHOOSE i \in S : \A j \in S : i <= j
             IN  <<SubSeq(text, 1, k - 1)>>
                     \o str_split(SubSeq(text, k + 1, Len(text)), sep)

\* sep.join(parts)
RECURSIVE str_join(_, _)
str_join(sep, parts) ==
    IF parts = <<>> THEN <<>>
    ELSE IF Len(parts) = 1 THEN parts[1]
    ELSE parts[1] \o <<sep>> \o str_join(sep, Tail(parts))

\* text.strip(chars)
str_strip(text, chars) ==
    LET S == { i \in 1..Len(text) : text[i] \notin chars }
    IN  IF S = {} THEN <<>>
        ELSE SubSeq(text, CHOOSE i \in S : \A j \in S : i <= j,
                          CHOOSE i \in S : \A j \in S : i >= j)

\* str(n) for a natural number
RECURSIVE str_int(_)
str_int(n) ==
    LET digit == <<"0", "1", "2", "3", "4", "5", "6", "7", "8", "9">>
    IN  IF n < 10 THEN <<digit[n + 1]>>
        ELSE str_int(n \div 10) \o <<digit[(n % 10) + 1]>>

\* f"{n:0{width}d}": zero padded to the width, never cut
format_0d(n, width) ==
    LET digits == str_int(n)
    IN  [i \in 1..(IF width > Len(digits) THEN width - Len(digits) ELSE 0) |-> "0"]
            \o digits

\* the datetime that the date_taken value n of the model stands for
datetime(n) ==
    [year |-> 2020 + n, month |-> n, day |-> 10 + n, hour |-> n, minute |-> 0,
     second |-> 30 + n]

\* dt.strftime(format) for the formats the renderer uses
strftime(dt, format) ==
    LET Y == format_0d(dt.year, 4)
        m == format_0d(dt.month, 2)
        d == format_0d(dt.day, 2)
        H == format_0d(dt.hour, 2)
        M == format_0d(dt.minute, 2)
        S == format_0d(dt.second, 2)
    IN  CASE format = "%Y-%m-%d" -> Y \o <<"-">> \o m \o <<"-">> \o d
          [] format = "%Y-%m-%d_%H-%M-%S" ->
                Y \o <<"-">> \o m \o <<"-">> \o d \o <<"_">>
                  \o H \o <<"-">> \o M \o <<"-">> \o S
          [] format = "%Y" -> Y
          [] format = "%m" -> m
          [] format = "%d" -> d
          [] format = "%H" -> H
          [] format = "%M" -> M
          [] format = "%S" -> S

(***************************************************************************)
(* services/rename_service.py: rendering a scheme                          *)
(***************************************************************************)
\* the characters of the class [<>:"|\\?*]
UnsafeCharacters == {"<", ">", ":", "\"", "|", "\\", "?", "*"}

\* re.sub(r'_+', '_', text)
collapse_underscores(text) ==
    LET keep == { i \in 1..Len(text) :
                    ~(text[i] = "_" /\ i > 1 /\ text[i - 1] = "_") }
        nth(k) == CHOOSE i \in keep : Cardinality({ j \in keep : j <= i }) = k
    IN  [k \in 1..Cardinality(keep) |-> text[nth(k)]]

\* _safe_filename with the space among the characters that are replaced
_safe_filename_spaces_replaced(filename) ==
    LET replaced == [i \in 1..Len(filename) |->
                        IF filename[i] \in UnsafeCharacters \cup {" "}
                        THEN "_" ELSE filename[i]]
    IN  str_strip(collapse_underscores(replaced), {"_", " "})

\* PhotoRenameService._safe_filename
_safe_filename(filename) ==
    LET replaced == [i \in 1..Len(filename) |->
                        IF filename[i] \in UnsafeCharacters THEN "_" ELSE filename[i]]
    IN  str_strip(collapse_underscores(replaced), {"_", " "})

\* the end of _generate_base_filename: a name with '/' is cleaned part by
\* part, any other name as a whole
clean_up_the_filename(new_name) ==
    IF \E i \in 1..Len(new_name) : new_name[i] = "/"
    THEN LET parts == str_split(new_name, "/")
         IN  str_join("/", [i \in 1..Len(parts) |-> _safe_filename(parts[i])])
    ELSE _safe_filename(new_name)

\* "for placeholder, value in replacements.items(): new_name = new_name.replace(...)"
RECURSIVE apply_replacements(_, _, _)
apply_replacements(new_name, replacements, i) ==
    IF i > Len(replacements) THEN new_name
    ELSE apply_replacements(
             str_replace(new_name, replacements[i][1], replacements[i][2]),
             replacements, i + 1)

\* PhotoRenameService._generate_base_filename, for the fields the metadata
\* records of the model have.  camera, dates and technical are objects and
\* therefore truthy: only dates.date_taken selects a branch.
_generate_base_filename(sch, group, gm) ==
    LET camera == gm.camera
        dates == gm.dates
        technical == gm.technical
        basename == Chars(group.basename)
        dt == datetime(dates.date_taken)
        date_replacements ==
            IF dates.date_taken # 0
            THEN << <<"{date}", strftime(dt, "%Y-%m-%d")>>,
                    <<"{datetime}", strftime(dt, "%Y-%m-%d_%H-%M-%S")>>,
                    <<"{year}", strftime(dt, "%Y")>>,
                    <<"{month}", strftime(dt, "%m")>>,
                    <<"{day}", strftime(dt, "%d")>>,
                    <<"{hour}", strftime(dt, "%H")>>,
                    <<"{minute}", strftime(dt, "%M")>>,
                    <<"{second}", strftime(dt, "%S")>> >>
            ELSE << <<"{date}", basename>>,
                    <<"{datetime}", basename>>,
                    <<"{year}", IF \E i \in 1..Len(basename) : basename[i] = "_"
                                THEN str_split(basename, "_")[1] ELSE basename>>,
                    <<"{month}", Chars("XX")>>,
                    <<"{day}", Chars("XX")>>,
                    <<"{hour}", Chars("XX")>>,
                    <<"{minute}", Chars("XX")>>,
                    <<"{second}", Chars("XX")>> >>
        camera_replacements ==
            << <<"{camera_make}", _safe_filename(Chars(
                    IF camera.make # "" THEN camera.make ELSE "UnknownMake"))>>,
               <<"{lens_model}", _safe_filename(Chars(
                    IF camera.lens_model # "" THEN camera.lens_model ELSE "UnknownLens"))>> >>
        technical_replacements ==
            << <<"{iso}", IF technical.iso # 0 THEN str_int(technical.iso)
                          ELSE Chars("UnknownISO")>> >>
        replacements == date_replacements \o camera_replacements
                            \o technical_replacements \o << <<"{basename}", basename>> >>
    IN  clean_up_the_filename(apply_replacements(sch, replacements, 1))

(***************************************************************************)
(* Rendering as a function of its inputs: any scheme, basename and         *)
(* aggregate record.                                                       *)
(***************************************************************************)
\* the placeholders _validate_naming_scheme accepts
valid_placeholders ==
    {"date", "datetime", "year", "month", "day", "hour", "minute", "second",
     "camera_make", "camera_model", "lens_model", "serial_number",
     "iso", "aperture", "focal_length", "shutter_speed",
     "basename", "sequence"}

\* re.findall(r'\{([^}]+)\}', scheme) on the placeholder elements that occur
PlaceholderName(element) ==
    CASE element = "{date}"        -> "date"
      [] element = "{datetime}"    -> "datetime"
      [] element = "{year}"        -> "year"
      [] element = "{month}"       -> "month"
      [] element = "{day}"         -> "day"
      [] element = "{hour}"        -> "hour"
      [] element = "{minute}"      -> "minute"
      [] element = "{second}"      -> "second"
      [] element = "{camera_make}" -> "camera_make"
      [] element = "{lens_model}"  -> "lens_model"
      [] element = "{iso}"         -> "iso"
      [] element = "{basename}"    -> "basename"
      [] element = "{sequence}"    -> "sequence"
      [] element = "{foo}"         -> "foo"
      [] OTHER                     -> ""

\* the naming schemes of the runs
Schemes ==
    { <<"{date}">>,
      <<"{basename}">>,
      <<"{year}", "/", "{month}", "/", "{basename}">>,
      <<"{camera_make}", "_", "{lens_model}">>,
      <<"{camera_make}", "/", "{basename}">>,
      <<"{iso}", "_", "{sequence}">>,
      <<"{datetime}", "_", "{foo}">>,
      <<"p", ":", "{day}", "{hour}", "{minute}", "{second}">> }

\* the basenames of the groups of the runs
Basenames == {"a", "b", "s_1"}

\* the aggregate records the renderer is given
AggregateRecords ==
    { [ camera    |-> [CameraInfoWithSource EXCEPT !.make = make,
                                                   !.lens_model = lens_model],
        dates     |-> [DateInfoWithSource EXCEPT !.date_taken = date_taken],
        technical |-> [TechnicalInfoWithSource EXCEPT !.iso = iso] ] :
        make \in {"", "Canon", "a:b", ".."},
        lens_model \in {"", "RF", "f/2"},
        date_taken \in {0, 2},
        iso \in {0, 100} }

NoFlags ==
    [sequence_digits |-> 3, dry_run |-> FALSE, copy_mode |-> FALSE,
     skip_invalid |-> TRUE]

\* a call of _generate_base_filename(scheme, group, group_metadata)
generate_base_filename ==
    /\ pc = "render"
    /\ ret' = [op |-> "_generate_base_filename", raised |-> "",
               value |-> <<_generate_base_filename(scheme, groups[1], group_metadata[1])>>]
    /\ pc' = "rendered"
    /\ UNCHANGED <<photos, metadata_cache, meta, queried, query_count,
                   scheme, groups, flags, group_metadata, operations, locals, fs>>

InitRender ==
    /\ photos = <<>>
    /\ metadata_cache = <<>>
    /\ meta = <<1, 1, 1>>
    /\ queried = <<>>
    /\ query_count = 0
    /\ ret = [op |-> "init", raised |-> "", value |-> <<>>]
    /\ scheme \in Schemes
    /\ \E basename \in Basenames : groups = << [basename |-> basename, photos |-> <<>>] >>
    /\ flags = NoFlags
    /\ \E gm \in AggregateRecords : group_metadata = <<gm>>
    /\ operations = <<>>
    /\ pc = "render"
    /\ locals = <<>>
    /\ fs = <<>>

NextRender == generate_base_filename

SpecRender == InitRender /\ [][NextRender]_vars

\* C3 as stated: the rendered name has exactly as many '/'-separated
\* segments as the scheme, and no segment of it is "..": a substituted value
\* neither creates nor escapes a directory level.
C3_ValuesStayInTheirSegment ==
    ret.op = "_generate_base_filename" =>
        LET rendered == str_split(ret.value[1], "/")
        IN  /\ Len(rendered) = Len(str_split(scheme, "/"))
            /\ \A i \in 1..Len(rendered) : rendered[i] # <<".", ".">>

(***************************************************************************)
(* The sanitizer as a function of its input: any raw name.                 *)
(***************************************************************************)
\* the longest raw name that is built from RawCharacters
MaxRawLen == 3

\* the characters the raw names are built from
RawCharacters == {"a", ":", "*", "_", " ", "/"}

\* "Canon:EOS R5"
CanonEOSR5 == <<"C", "a", "n", "o", "n", ":", "E", "O", "S", " ", "R", "5">>

\* the raw names that are cleaned
RawNames ==
    UNION { [1..n -> RawCharacters] : n \in 0..MaxRawLen } \cup {CanonEOSR5}

\* a call of _safe_filename(raw) for a raw name without '/'
safe_filename ==
    /\ pc = "raw"
    /\ \A i \in 1..Len(locals[1]) : locals[1][i] # "/"
    /\ ret' = [op |-> "_safe_filename", raised |-> "",
               value |-> <<_safe_filename(locals[1])>>]
    /\ pc' = "cleaned"
    /\ UNCHANGED <<photos, metadata_cache, meta, queried, query_count,
                   scheme, groups, flags, group_metadata, operations, locals, fs>>

\* the clean-up at the end of _generate_base_filename for a rendered name
clean_up_rendered_name ==
    /\ pc = "raw"
    /\ ret' = [op |-> "_generate_base_filename", raised |-> "",
               value |-> <<clean_up_the_filename(locals[1])>>]
    /\ pc' = "cleaned"
    /\ UNCHANGED <<photos, metadata_cache, meta, queried, query_count,
                   scheme, groups, flags, group_metadata, operations, locals, fs>>

InitSanitize ==
    /\ photos = <<>>
    /\ metadata_cache = <<>>
    /\ meta = <<1, 1, 1>>
    /\ queried = <<>>
    /\ query_count = 0
    /\ ret = [op |-> "init", raised |-> "", value |-> <<>>]
    /\ scheme = <<>>
    /\ groups = <<>>
    /\ flags = NoFlags
    /\ group_metadata = <<>>
    /\ operations = <<>>
    /\ pc = "raw"
    /\ \E raw \in RawNames : locals = <<raw>>
    /\ fs = <<>>

NextSanitize ==
    \/ safe_filename
    \/ clean_up_rendered_name

SpecSanitize == InitSanitize /\ [][NextSanitize]_vars

\* what the rules of the sanitizer say of one segment and what it became:
\* no character of < > : " | \ ? * is left, no two '_' are adjacent, the
\* ends are neither '_' nor a space, and the other characters of the segment
\* are all there, in their order, the spaces inside included
Sanitized(segment, cleaned) ==
    LET plain(text) == SelectSeq(text, LAMBDA c : c \notin UnsafeCharacters \cup {"_"})
    IN  /\ \A i \in 1..Len(cleaned) : cleaned[i] \notin UnsafeCharacters
        /\ \A i \in 1..(Len(cleaned) - 1) : ~(cleaned[i] = "_" /\ cleaned[i + 1] = "_")
        /\ cleaned # <<>> => /\ cleaned[1] \notin {"_", " "}
                             /\ cleaned[Len(cleaned)] \notin {"_", " "}
        /\ plain(cleaned) = str_strip(plain(segment), {" "})
        /\ Len(cleaned) <= Len(segment)

\* the rules hold of every cleaned name, segment by segment
C25_Rules ==
    /\ ret.op = "_safe_filename" => Sanitized(locals[1], ret.value[1])
    /\ ret.op = "_generate_base_filename" =>
           /\ Len(str_split(ret.value[1], "/")) = Len(str_split(locals[1], "/"))
           /\ \A i \in 1..Len(str_split(locals[1], "/")) :
                  Sanitized(str_split(locals[1], "/")[i],
                            str_split(ret.value[1], "/")[i])

\* C25 as stated: the sanitizer replaces each of < > : " | \ ? * by '_',
\* collapses runs of '_' and trims '_' and spaces at the ends, per segment,
\* and "Canon:EOS R5" becomes "Canon_EOS_R5".
C25_SanitizerAsStated ==
    /\ C25_Rules
    /\ (ret.op # "init" /\ locals[1] = CanonEOSR5) =>
           ret.value[1] = <<"C", "a", "n", "o", "n", "_", "E", "O", "S", "_", "R", "5">>

\* C25 amended: the same rules, and "Canon:EOS R5" becomes "Canon_EOS R5":
\* the space inside the name is kept.
C25_SanitizerKeepsInnerSpaces ==
    /\ C25_Rules
    /\ (ret.op # "init" /\ locals[1] = CanonEOSR5) =>
           ret.value[1] = <<"C", "a", "n", "o", "n", "_", "E", "O", "S", " ", "R", "5">>

\* "Canon:EOS R5" has been cleaned by _safe_filename
C25_Witness ==
    /\ ret.op = "_safe_filename"
    /\ locals[1] = CanonEOSR5
    /\ Len(ret.value[1]) = 12
    /\ ret.value[1][6] = "_"

(***************************************************************************)
(* services/rename_service.py: planning and sequence assignment            *)
(***************************************************************************)
\* the elements of s at the indices in keep, in order
SubseqAt(s, keep) ==
    [k \in 1..Cardinality(keep) |->
        s[CHOOSE i \in keep : Cardinality({ j \in keep : j <= i }) = k]]

\* the keys of a dict filled in the order of s: each value at its first place
FirstOccurrences(s) ==
    SubseqAt(s, { i \in 1..Len(s) : \A j \in 1..(i - 1) : s[j] # s[i] })

\* pathlib.Path(text): empty and "." segments are dropped, ".." is kept
Path(text) ==
    LET parts == str_split(text, "/")
        kept == SubseqAt(parts, { i \in 1..Len(parts) :
                                    parts[i] # <<>> /\ parts[i] # <<".">> })
    IN  (IF text # <<>> /\ text[1] = "/" THEN <<"/">> ELSE <<>>)
            \o str_join("/", kept)

\* path.parent
Path_parent(path) ==
    LET parts == str_split(path, "/")
    IN  IF Len(parts) <= 1 THEN <<".">>
        ELSE IF Len(parts) = 2 /\ parts[1] = <<>> THEN <<"/">>
        ELSE str_join("/", SubSeq(parts, 1, Len(parts) - 1))

\* a group of the loaded database: PhotoGroup(basename) with its Photos
PhotoGroup(basename, fs_) ==
    [ basename |-> basename,
      photos |-> [i \in 1..Len(fs_) |-> Photo(fs_[i])],
      metadata_cache |-> <<>> ]

\* group.extract_metadata() of a group of the database.  The call never
\* leaves a cache behind (see ExtractMetadataOf), so the group is unchanged.
group_extract_metadata(group) ==
    ExtractMetadataOf(group.basename, group.photos, group.metadata_cache,
                      backend, FALSE)

\* the operations of one group: one per Photo, all with the one base filename
group_operations_of(group, destination, base_filename) ==
    [ i \in 1..Len(group.photos) |->
        LET name_parts == str_split(base_filename, "/")
        IN  [ group         |-> group,
              photo         |-> group.photos[i],
              old_path      |-> group.photos[i].absolute_path,
              base_new_path |->
                  IF Len(name_parts) > 1
                  THEN Path(destination \o <<"/">>
                            \o str_join("/", SubSeq(name_parts, 1, Len(name_parts) - 1))
                            \o <<"/">> \o name_parts[Len(name_parts)])
                  ELSE Path(destination \o <<"/">> \o base_filename),
              base_filename |-> base_filename,
              destination   |-> destination,
              new_path      |-> <<>>,
              new_dir       |-> <<>> ] ]

\* PhotoRenameService._generate_rename_operations: the loop over the groups
RECURSIVE _generate_rename_operations_loop(_, _, _, _, _)
\* the body of the loop for group gs[k], whose extract_metadata call gave
\* extracted: the exception ends the planning
_generate_rename_operations_step(gs, destination, sch, k, rename_operations, extracted) ==
    IF extracted.raised # ""
    THEN [raised |-> extracted.raised, value |-> <<>>]
    ELSE _generate_rename_operations_loop(gs, destination, sch, k + 1,
             rename_operations \o group_operations_of(gs[k], destination,
                 _generate_base_filename(sch, gs[k], extracted.value[1])))

_generate_rename_operations_loop(gs, destination, sch, k, rename_operations) ==
    IF k > Len(gs) THEN [raised |-> "", value |-> rename_operations]
    ELSE _generate_rename_operations_step(gs, destination, sch, k, rename_operations,
             group_extract_metadata(gs[k]))

_generate_rename_operations(gs, destination, sch) ==
    _generate_rename_operations_loop(gs, destination, sch, 1, <<>>)

\* a dict "group basename -> list of operations" over the operations at the
\* indices in members: the entries in insertion order
group_to_operations_of(ops, members) ==
    LET order == SubseqAt([i \in 1..Len(ops) |-> i], members)
        names == FirstOccurrences([k \in 1..Len(order) |-> ops[order[k]].group.basename])
    IN  [ n \in 1..Len(names) |->
            [ name |-> names[n],
              operations |-> { i \in members : ops[i].group.basename = names[n] } ] ]

\* the sort of _sort_groups_by_date_taken, extracted[i] being what
\* extract_metadata gave for the group of operation i: the sorted group
\* names, or the exception of a call that raised
sort_by_earliest_date(group_operations, extracted) ==
    LET called == UNION { group_operations[n].operations :
                              n \in 1..Len(group_operations) }
        raising == { i \in called : extracted[i].raised # "" }
        date(i) == extracted[i].value[1].dates.date_taken
        earliest_date(n) ==
            LET dated == { date(i) : i \in { j \in group_operations[n].operations :
                                                 date(j) # 0 } }
            IN  IF dated = {} THEN 0
                ELSE CHOOSE d \in dated : \A e \in dated : d <= e
        \* (date is None, date if date else datetime.min), compared as tuples
        less(a, b) ==
            \/ earliest_date(a) # 0 /\ earliest_date(b) = 0
            \/ /\ earliest_date(a) # 0
               /\ earliest_date(b) # 0
               /\ earliest_date(a) < earliest_date(b)
        before(a, b) == less(a, b) \/ (~less(b, a) /\ a < b)
        rank(a) == 1 + Cardinality({ b \in 1..Len(group_operations) : before(b, a) })
    IN  IF raising # {}
        THEN [ raised |-> extracted[CHOOSE i \in raising : TRUE].raised,
               value |-> <<>> ]
        ELSE [ raised |-> "",
               value |-> [ r \in 1..Len(group_operations) |->
                            group_operations[CHOOSE a \in 1..Len(group_operations) :
                                                 rank(a) = r].name ] ]

\* PhotoRenameService._sort_groups_by_date_taken
_sort_groups_by_date_taken(ops, group_operations) ==
    sort_by_earliest_date(group_operations,
        [i \in 1..Len(ops) |-> group_extract_metadata(ops[i].group)])

\* the place of a group name in the sorted names, from 1
seq_idx_of(sorted_group_names, group_name) ==
    CHOOSE k \in 1..Len(sorted_group_names) : sorted_group_names[k] = group_name

\* the operations with those at the indices in members given the final
\* paths of final_path
with_new_paths(ops, members, final_path) ==
    [ i \in 1..Len(ops) |->
        IF i \in members
        THEN [ops[i] EXCEPT !.new_path = <<final_path[i]>>,
                            !.new_dir = <<Path_parent(final_path[i])>>]
        ELSE ops[i] ]

\* the final path of an operation in explicit mode
explicit_final_path(op, pattern, seq_idx, sequence_digits) ==
    LET final_filename == str_replace(pattern, "{sequence}",
                              format_0d(seq_idx, sequence_digits))
        name_parts == str_split(final_filename, "/")
        extension == Chars(op.photo.extension)
    IN  IF Len(name_parts) > 1
        THEN Path(op.destination \o <<"/">>
                  \o str_join("/", SubSeq(name_parts, 1, Len(name_parts) - 1))
                  \o <<"/">> \o name_parts[Len(name_parts)] \o extension)
        ELSE Path(op.destination \o <<"/">> \o final_filename \o extension)

\* PhotoRenameService._apply_explicit_sequences: one pattern after the other;
\* an exception leaves the operations of the patterns done so far assigned
RECURSIVE _apply_explicit_sequences_loop(_, _, _, _)
\* the body of the loop for one pattern, sorted_group_names being what the
\* sort of its groups gave
_apply_explicit_sequences_step(ops, patterns, k, sequence_digits, members, sorted_group_names) ==
    IF sorted_group_names.raised # ""
    THEN [raised |-> sorted_group_names.raised, operations |-> ops]
    ELSE _apply_explicit_sequences_loop(
             with_new_paths(ops, members,
                 [ i \in members |->
                     explicit_final_path(ops[i], patterns[k],
                         seq_idx_of(sorted_group_names.value, ops[i].group.basename),
                         sequence_digits) ]),
             patterns, k + 1, sequence_digits)

\* the operations of one pattern
explicit_members(ops, pattern) ==
    { i \in 1..Len(ops) : ops[i].base_filename = pattern }

_apply_explicit_sequences_loop(ops, patterns, k, sequence_digits) ==
    IF k > Len(patterns) THEN [raised |-> "", operations |-> ops]
    ELSE _apply_explicit_sequences_step(ops, patterns, k, sequence_digits,
             explicit_members(ops, patterns[k]),
             _sort_groups_by_date_taken(ops,
                 group_to_operations_of(ops, explicit_members(ops, patterns[k]))))

_apply_explicit_sequences(ops, sequence_digits) ==
    _apply_explicit_sequences_loop(ops,
        FirstOccurrences([i \in 1..Len(ops) |-> ops[i].base_filename]),
        1, sequence_digits)

\* the operations of one base path
collision_members(ops, base_path) ==
    { i \in 1..Len(ops) : ops[i].base_new_path = base_path }

\* whether operations of two groups have the base path
is_conflicting(ops, base_path) ==
    Cardinality({ ops[i].group.basename : i \in collision_members(ops, base_path) }) > 1

\* the final path of an operation in collision mode: the _NNN suffix of its
\* group on a conflicting base path, the base path as it is otherwise
collision_final_path(op, conflicting, sorted_group_names, sequence_digits) ==
    IF conflicting
    THEN Path(op.base_new_path \o <<"_">>
              \o format_0d(seq_idx_of(sorted_group_names, op.group.basename),
                           sequence_digits)
              \o Chars(op.photo.extension))
    ELSE Path(op.base_new_path \o Chars(op.photo.extension))

\* PhotoRenameService._apply_collision_sequences: one base path after the
\* other; an exception leaves the base paths done so far assigned
RECURSIVE _apply_collision_sequences_loop(_, _, _, _)
\* the body of the loop for one base path, sorted_group_names being what the
\* sort of its groups gave when the base path is conflicting
_apply_collision_sequences_step(ops, base_paths, k, sequence_digits, members, conflicting, sorted_group_names) ==
    IF sorted_group_names.raised # ""
    THEN [raised |-> sorted_group_names.raised, operations |-> ops]
    ELSE _apply_collision_sequences_loop(
             with_new_paths(ops, members,
                 [ i \in members |->
                     collision_final_path(ops[i], conflicting,
                         sorted_group_names.value, sequence_digits) ]),
             base_paths, k + 1, sequence_digits)

_apply_collision_sequences_loop(ops, base_paths, k, sequence_digits) ==
    IF k > Len(base_paths) THEN [raised |-> "", operations |-> ops]
    ELSE _apply_collision_sequences_step(ops, base_paths, k, sequence_digits,
             collision_members(ops, base_paths[k]),
             is_conflicting(ops, base_paths[k]),
             IF is_conflicting(ops, base_paths[k])
             THEN _sort_groups_by_date_taken(ops,
                      group_to_operations_of(ops, collision_members(ops, base_paths[k])))
             ELSE [raised |-> "", value |-> <<>>])

_apply_collision_sequences(ops, sequence_digits) ==
    _apply_collision_sequences_loop(ops,
        FirstOccurrences([i \in 1..Len(ops) |-> ops[i].base_new_path]),
        1, sequence_digits)

\* PhotoRenameService._apply_sequences_to_operations
_apply_sequences_to_operations(ops, sequence_digits) ==
    LET has_sequence_placeholder ==
            \E i \in 1..Len(ops) :
                \E c \in 1..Len(ops[i].base_filename) :
                    ops[i].base_filename[c] = "{sequence}"
    IN  IF has_sequence_placeholder
        THEN _apply_explicit_sequences(ops, sequence_digits)
        ELSE _apply_collision_sequences(ops, sequence_digits)

(***************************************************************************)
(* Planning and sequence assignment as functions of their inputs: any list *)
(* of groups with any scheme, and any list of rename operations.           *)
(***************************************************************************)
\* the destination directory of the runs
Destination == Chars("/out")

File(dir, stem, suffix) == [dir |-> dir, stem |-> stem, suffix |-> suffix]

\* the groups a database holds
GroupA == PhotoGroup("a", <<File("d1", "a", ".jpg"), File("d1", "a", ".xmp")>>)

GroupAOther == PhotoGroup("a", <<File("d1", "a", ".png")>>)

GroupALive == PhotoGroup("a", <<File("d1", "a", ".mov"), File("d1", "a", ".thm")>>)

GroupANote == PhotoGroup("a", <<File("d1", "a", ".xmp")>>)

GroupB == PhotoGroup("b", <<File("d1", "b", ".jpg")>>)

\* the two groups of the scenarios: vacation is the earlier one
Vacation ==
    PhotoGroup("vacation", <<File("d1", "vacation", ".jpg"), File("d1", "vacation", ".xmp")>>)

Beach ==
    PhotoGroup("beach", <<File("d1", "beach", ".jpg"), File("d1", "beach", ".xmp")>>)

ScenarioGroupLists == { <<Vacation, Beach>>, <<Beach, Vacation>> }

\* "{basename}_{sequence}" and "photo"
ScenarioSchemes == { <<"{basename}", "_", "{sequence}">>, <<"p", "h", "o", "t", "o">> }

\* the lists of groups that are planned: no two groups of a list share a
\* basename, as in a PhotoGroupManager
GroupLists ==
    { <<>>, <<GroupA>>, <<GroupB>>, <<GroupA, GroupB>>, <<GroupB, GroupA>>,
      <<GroupAOther, GroupB>>, <<GroupALive>>, <<GroupALive, GroupB>>,
      <<GroupANote, GroupB>> }

\* the base filenames of the operation lists that are sequenced
BaseFilenames ==
    { <<"X">>, <<"Y">>, <<"X", "_", "0", "0", "1">>, <<"d", "/", "X">>,
      <<"X", "{sequence}">>, <<"{sequence}", "/", "X">> }

\* the operation lists that are sequenced: the operations of a list of
\* groups, each group with a base filename of its own
RECURSIVE OperationsOver(_)
OperationsOver(gs) ==
    IF gs = <<>> THEN { <<>> }
    ELSE { group_operations_of(Head(gs), Destination, base_filename) \o rest :
               base_filename \in BaseFilenames, rest \in OperationsOver(Tail(gs)) }

OperationLists == UNION { OperationsOver(gs) : gs \in GroupLists }

\* the end of a planning call with outcome r
planned(r) ==
    /\ operations' = r.value
    /\ ret' = [op |-> "_generate_rename_operations", raised |-> r.raised,
               value |-> <<>>]
    /\ pc' = IF r.raised = "" THEN "planned" ELSE "raised"

\* a call of _generate_rename_operations(groups, destination, scheme)
generate_rename_operations ==
    /\ pc = "plan"
    /\ planned(_generate_rename_operations(groups, Destination, scheme))
    /\ UNCHANGED <<photos, metadata_cache, meta, queried, query_count,
                   scheme, groups, flags, group_metadata, locals, fs>>

\* the end of a sequencing call with outcome r
sequenced(r) ==
    /\ operations' = r.operations
    /\ ret' = [op |-> "_apply_sequences_to_operations", raised |-> r.raised,
               value |-> <<>>]
    /\ pc' = IF r.raised = "" THEN "sequenced" ELSE "raised"

\* a call of _apply_sequences_to_operations(rename_operations, sequence_digits)
apply_sequences_to_operations ==
    /\ pc \in {"planned", "sequence"}
    /\ sequenced(_apply_sequences_to_operations(operations, flags.sequence_digits))
    /\ UNCHANGED <<photos, metadata_cache, meta, queried, query_count,
                   scheme, groups, flags, group_metadata, locals, fs>>

\* the caller plans the same groups with the same scheme and digits once
\* more: what the first run gave is kept for comparison
plan_again ==
    /\ pc \in {"sequenced", "raised"}
    /\ scheme # <<>>
    /\ locals = <<>>
    /\ locals' = << [operations |-> operations, raised |-> ret.raised] >>
    /\ operations' = <<>>
    /\ ret' = [op |-> "init", raised |-> "", value |-> <<>>]
    /\ pc' = "plan"
    /\ UNCHANGED <<photos, metadata_cache, meta, queried, query_count,
                   scheme, groups, flags, group_metadata, fs>>

InitSeq ==
    /\ photos = <<>>
    /\ metadata_cache = <<>>
    /\ meta \in Backends
    /\ queried = <<>>
    /\ query_count = 0
    /\ ret = [op |-> "init", raised |-> "", value |-> <<>>]
    /\ \E sequence_digits \in {1, 3} :
           flags = [NoFlags EXCEPT !.sequence_digits = sequence_digits]
    /\ group_metadata = <<>>
    /\ locals = <<>>
    /\ fs = <<>>
    /\ \/ /\ pc = "plan"
          /\ scheme \in Schemes
          /\ groups \in GroupLists
          /\ operations = <<>>
       \/ /\ pc = "plan"
          /\ scheme \in ScenarioSchemes
          /\ groups \in ScenarioGroupLists
          /\ operations = <<>>
       \/ /\ pc = "sequence"
          /\ scheme = <<>>
          /\ groups = <<>>
          /\ operations \in OperationLists

NextSeq ==
    \/ generate_rename_operations
    \/ apply_sequences_to_operations
    \/ plan_again

SpecSeq == InitSeq /\ [][NextSeq]_vars

\* C1 as stated: sequence assignment over any list of rename operations, in
\* explicit {sequence} mode and in collision mode alike, gives every
\* operation of the list a final destination path, and no two operations of
\* the list have the same one.
C1_NoDuplicateFinalDestinations ==
    ret.op = "_apply_sequences_to_operations" =>
        /\ ret.raised = ""
        /\ \A i \in 1..Len(operations) : operations[i].new_path # <<>>
        /\ \A i, j \in 1..Len(operations) :
               operations[i].new_path = operations[j].new_path => i = j

\* C2 as stated: planning gives every group with two or more Photos one
\* operation per Photo, all with one base destination, and after sequence
\* assignment their final paths differ only in the extension.
C2_GroupSharesBaseAndSequence ==
    (groups # <<>> /\ ret.op # "init") =>
        \A g \in 1..Len(groups) :
            Len(groups[g].photos) >= 2 =>
                LET mine == { i \in 1..Len(operations) :
                                operations[i].group.basename = groups[g].basename }
                    stem(i) == SubSeq(operations[i].new_path[1], 1,
                                   Len(operations[i].new_path[1])
                                       - Len(Chars(operations[i].photo.extension)))
                IN  /\ Cardinality(mine) = Len(groups[g].photos)
                    /\ \A i, j \in mine :
                         /\ operations[i].base_new_path = operations[j].base_new_path
                         /\ ret.op = "_apply_sequences_to_operations" =>
                              /\ operations[i].new_path # <<>>
                              /\ operations[j].new_path # <<>>
                              /\ stem(i) = stem(j)

(***************************************************************************)
(* The sort of the groups of one bucket as a function of its input: any    *)
(* list of operations, over groups that answer extract_metadata from their *)
(* cache ("if self._metadata_cache and not force_refresh") and over a      *)
(* group that has to aggregate.                                            *)
(***************************************************************************)
\* a group whose _metadata_cache holds a record with the given date_taken
CachedGroup(basename, date_taken) ==
    [ PhotoGroup(basename, <<File("d1", basename, ".jpg")>>) EXCEPT
        !.metadata_cache =
            PhotoMetadataWithSource(
                [ camera      |-> CameraInfoWithSource,
                  dates       |-> [DateInfoWithSource EXCEPT !.date_taken = date_taken],
                  technical   |-> TechnicalInfoWithSource,
                  keywords    |-> <<>>,
                  source_file |-> <<"group:", basename>> ]).value ]

\* the groups whose operations are sorted
SortGroups ==
    { CachedGroup(basename, date_taken) :
          basename \in {"a", "b", "c"}, date_taken \in {0, 1, 2} }
      \cup { GroupB }

\* the lists of one to three groups with distinct basenames, in any order
SortGroupLists ==
    { gs \in UNION { [1..n -> SortGroups] : n \in 1..3 } :
          \A i, j \in 1..Len(gs) : gs[i].basename = gs[j].basename => i = j }

\* a call of _sort_groups_by_date_taken on the dict of all the operations,
\* as the two callers build it
sort_groups_by_date_taken ==
    /\ pc = "sort"
    /\ ret' = [ op |-> "_sort_groups_by_date_taken" ]
                 @@ _sort_groups_by_date_taken(operations,
                        group_to_operations_of(operations, 1..Len(operations)))
    /\ pc' = "sorted"
    /\ UNCHANGED <<photos, metadata_cache, meta, queried, query_count,
                   scheme, groups, flags, group_metadata, operations, locals, fs>>

InitSort ==
    /\ photos = <<>>
    /\ metadata_cache = <<>>
    /\ meta = <<1, 1, 1>>
    /\ queried = <<>>
    /\ query_count = 0
    /\ ret = [op |-> "init", raised |-> "", value |-> <<>>]
    /\ scheme = <<>>
    /\ groups = <<>>
    /\ flags = NoFlags
    /\ group_metadata = <<>>
    /\ \E gs \in SortGroupLists :
           operations = Concat([ g \in 1..Len(gs) |->
                                   group_operations_of(gs[g], Destination,
                                       <<"X", "{sequence}">>) ])
    /\ pc = "sort"
    /\ locals = <<>>
    /\ fs = <<>>

NextSort == sort_groups_by_date_taken

SpecSort == InitSort /\ [][NextSort]_vars

\* the date_taken the aggregate of a group holds by the rule of C10: the
\* first one met over the non-sidecar Photos and then the .xmp and .xml
\* sidecars
aggregate_date_of(group) ==
    _aggregate_date_info_with_source(
        SourcesOf(SelectSeq(group.photos, LAMBDA photo :
                      photo.format_classification # "sidecar"), backend, "photo")
          \o SourcesOf(SelectSeq(group.photos, LAMBDA sidecar :
                           /\ sidecar.format_classification = "sidecar"
                           /\ Lower(sidecar.extension) \in {".xmp", ".xml"}),
                       backend, "sidecar")).date_taken

\* whether the group with date d comes strictly before the one with date e:
\* dated before undated, the earlier date first
dated_before(d, e) ==
    \/ d # 0 /\ e = 0
    \/ d # 0 /\ e # 0 /\ d < e

\* C12 as stated: sequence assignment in explicit mode succeeds, and inside
\* every pattern bucket the distinct source groups carry the numbers 1..N,
\* a group that precedes another by date_taken (dated before undated) having
\* the smaller number, each number zero-padded to sequence_digits in place
\* of {sequence}.
C12_ExplicitNumbersByDate ==
    ( /\ ret.op = "_apply_sequences_to_operations"
      /\ \E i \in 1..Len(operations) :
             \E c \in 1..Len(operations[i].base_filename) :
                 operations[i].base_filename[c] = "{sequence}" ) =>
        /\ ret.raised = ""
        /\ \A p \in 1..Len(operations) :
             LET bucket == explicit_members(operations, operations[p].base_filename)
                 names == { operations[i].group.basename : i \in bucket }
                 date(n) == aggregate_date_of(
                                operations[CHOOSE i \in bucket :
                                    operations[i].group.basename = n].group)
             IN  \E number \in [names -> 1..Cardinality(names)] :
                     /\ \A n, m \in names : number[n] = number[m] => n = m
                     /\ \A n, m \in names :
                            dated_before(date(n), date(m)) => number[n] < number[m]
                     /\ \A i \in bucket :
                            operations[i].new_path =
                                << explicit_final_path(operations[i],
                                       operations[p].base_filename,
                                       number[operations[i].group.basename],
                                       flags.sequence_digits) >>

C14_ScenarioA ==
    ( /\ groups \in ScenarioGroupLists
      /\ scheme = <<"{basename}", "_", "{sequence}">>
      /\ flags.sequence_digits = 3
      /\ ret.op # "init" ) =>
        /\ ret.raised = ""
        /\ ret.op = "_apply_sequences_to_operations" =>
             { operations[i].new_path : i \in 1..Len(operations) } =
                 { << Destination \o <<"/">> \o Chars("vacation")
                        \o <<"_", "0", "0", "1">> \o Chars(".jpg") >>,
                   << Destination \o <<"/">> \o Chars("vacation")
                        \o <<"_", "0", "0", "1">> \o Chars(".xmp") >>,
                   << Destination \o <<"/">> \o Chars("beach")
                        \o <<"_", "0", "0", "2">> \o Chars(".jpg") >>,
                   << Destination \o <<"/">> \o Chars("beach")
                        \o <<"_", "0", "0", "2">> \o Chars(".xmp") >> }

\* C15 as stated: sequence assignment in collision mode succeeds; a base
\* path of one source group is the final path but for the extension; on a
\* base path of several source groups every group has _NNN before the
\* extension, numbered from 1 with a group that precedes another by
\* date_taken having the smaller number; and the groups vacation and beach
\* planned with scheme "photo" become photo_001.jpg, photo_001.xmp,
\* photo_002.jpg and photo_002.xmp.
C15_CollisionSuffixes ==
    /\ ( /\ ret.op = "_apply_sequences_to_operations"
         /\ \A i \in 1..Len(operations) :
                \A c \in 1..Len(operations[i].base_filename) :
                    operations[i].base_filename[c] # "{sequence}" ) =>
           /\ ret.raised = ""
           /\ \A p \in 1..Len(operations) :
                LET members == collision_members(operations, operations[p].base_new_path)
                    names == { operations[i].group.basename : i \in members }
                    date(n) == aggregate_date_of(
                                   operations[CHOOSE i \in members :
                                       operations[i].group.basename = n].group)
                IN  \E number \in [names -> 1..Cardinality(names)] :
                        /\ \A n, m \in names : number[n] = number[m] => n = m
                        /\ \A n, m \in names :
                               dated_before(date(n), date(m)) => number[n] < number[m]
                        /\ \A i \in members :
                               operations[i].new_path =
                                   << collision_final_path(operations[i],
                                          Cardinality(names) > 1,
                                          [ k \in 1..Cardinality(names) |->
                                              CHOOSE n \in names : number[n] = k ],
                                          flags.sequence_digits) >>
    /\ ( /\ groups \in ScenarioGroupLists
         /\ scheme = <<"p", "h", "o", "t", "o">>
         /\ flags.sequence_digits = 3
         /\ ret.op # "init" ) =>
           /\ ret.raised = ""
           /\ ret.op = "_apply_sequences_to_operations" =>
                { <<operations[i].group.basename, operations[i].new_path>> :
                      i \in 1..Len(operations) } =
                    { << "vacation", << Destination \o <<"/">> \o <<"p", "h", "o", "t", "o">>
                           \o <<"_", "0", "0", "1">> \o Chars(".jpg") >> >>,
                      << "vacation", << Destination \o <<"/">> \o <<"p", "h", "o", "t", "o">>
                           \o <<"_", "0", "0", "1">> \o Chars(".xmp") >> >>,
                      << "beach", << Destination \o <<"/">> \o <<"p", "h", "o", "t", "o">>
                           \o <<"_", "0", "0", "2">> \o Chars(".jpg") >> >>,
                      << "beach", << Destination \o <<"/">> \o <<"p", "h", "o", "t", "o">>
                           \o <<"_", "0", "0", "2">> \o Chars(".xmp") >> >> }

\* C19 as stated: the planner run a second time on the same groups with
\* the same scheme and sequence_digits produces an operation list, as the
\* first run did, and the two lists are equal: the same operations in the
\* same order with the same final paths.
C19_PlanningRepeatable ==
    (locals # <<>> /\ pc \in {"sequenced", "raised"}) =>
        /\ locals[1].raised = ""
        /\ ret.raised = ""
        /\ operations = locals[1].operations

(***************************************************************************)
(* services/rename_service.py: rename_photos, step by step                 *)
(***************************************************************************)
\* the file system before a run: the database file holds the groups, every
\* file of theirs is where the database says, nothing else has been made.
\* vanished holds the files that something else deletes once the database
\* has been loaded.
InitialFs(database) ==
    [ database            |-> database,
      vanished            |-> {},
      destination_created |-> FALSE,
      error_folders       |-> {},
      new_dirs            |-> {},
      moved               |-> {},
      copied              |-> {},
      database_written    |-> FALSE ]

\* path.exists() for the file of a Photo
path_exists(filesystem, path) ==
    /\ path \notin filesystem.vanished
    /\ path \notin filesystem.error_folders
    /\ \A m \in filesystem.moved : m.old_path # path

\* PhotoRenameService._validate_naming_scheme: the invalid placeholders
invalid_placeholders(sch) ==
    { PlaceholderName(sch[i]) : i \in { j \in 1..Len(sch) : PlaceholderName(sch[j]) # "" } }
        \ valid_placeholders

\* ErrorHandlingService.classify_error(group=group, exception=e), metadata
\* being what its own extract_metadata call on the group gives.  The message
\* of the TypeError names none of corrupt, invalid, broken, damaged, and no
\* photo is passed.
classify_error(group, exception, metadata) ==
    IF exception = "PermissionError" THEN "PERMISSION_ERROR"
    ELSE IF /\ Len(group.photos) > 0
            /\ metadata.raised = ""
            /\ metadata.value[1].dates.date_taken = 0
         THEN "MISSING_DATE"
         ELSE "INVALID_FILE"

\* the body of the loop of _classify_groups without the handler of the
\* exception of extract_metadata: the group counts as valid
group_problem_aggregation_unchecked(group, filesystem, group_metadata_) ==
    IF Len(group.photos) = 0 THEN <<"INVALID_FILE">>
    ELSE IF ~is_valid(group.photos) THEN <<"INVALID_FILE">>
    ELSE IF \E i \in 1..Len(group.photos) :
                ~path_exists(filesystem, group.photos[i].absolute_path)
         THEN <<"INVALID_FILE">>
    ELSE <<>>

\* the body of the loop of _classify_groups, group_metadata_ being what
\* extract_metadata gives for the group: the error type of a group that is
\* problematic, nothing for a valid one.  The record extract_metadata
\* returns is an object and so never fails "if not group_metadata".
group_problem(group, filesystem, group_metadata_) ==
    IF Len(group.photos) = 0 THEN <<"INVALID_FILE">>
    ELSE IF ~is_valid(group.photos) THEN <<"INVALID_FILE">>
    ELSE IF \E i \in 1..Len(group.photos) :
                ~path_exists(filesystem, group.photos[i].absolute_path)
         THEN <<"INVALID_FILE">>
    ELSE IF group_metadata_.raised # ""
         THEN <<classify_error(group, group_metadata_.raised, group_metadata_)>>
         ELSE <<>>

\* the two lists of _classify_groups, problems[i] being the outcome of the
\* loop body for group i
classified_groups(all_groups, problems) ==
    [ valid_groups |->
          SubseqAt(all_groups, { i \in 1..Len(all_groups) : problems[i] = <<>> }),
      problematic_groups |->
          SubseqAt([ i \in 1..Len(all_groups) |->
                       [ group |-> all_groups[i],
                         error_type |-> IF problems[i] = <<>> THEN ""
                                        ELSE problems[i][1] ] ],
                   { i \in 1..Len(all_groups) : problems[i] # <<>> }) ]

\* PhotoRenameService._classify_groups
_classify_groups(all_groups, filesystem) ==
    classified_groups(all_groups,
        [ i \in 1..Len(all_groups) |->
            group_problem(all_groups[i], filesystem,
                          group_extract_metadata(all_groups[i])) ])

\* PhotoRenameService._group_has_required_metadata, group_metadata_ being
\* what extract_metadata gives for the group
_group_has_required_metadata(sch, group_metadata_) ==
    IF \E i \in 1..Len(sch) :
           sch[i] \in {"{date}", "{datetime}", "{year}", "{month}", "{day}",
                       "{hour}", "{minute}", "{second}"}
    THEN /\ group_metadata_.raised = ""
         /\ group_metadata_.value[1].dates.date_taken # 0
    ELSE TRUE

\* PhotoRenameService._handle_problematic_groups_in_source with
\* ErrorHandlingService.handle_error_group: every file of the groups that is
\* still in place is moved to an error folder of its source directory
_handle_problematic_groups_in_source(problematic_groups, filesystem) ==
    [ filesystem EXCEPT !.error_folders = @ \cup
        UNION { { problematic_groups[g].group.photos[i].absolute_path :
                    i \in { j \in 1..Len(problematic_groups[g].group.photos) :
                              path_exists(filesystem,
                                  problematic_groups[g].group.photos[j].absolute_path) } } :
                g \in 1..Len(problematic_groups) } ]

\* the Photo of an operation after _update_photo_with_history: the old
\* location is added to its history and its path is the new one
moved_photo(op) ==
    [ op.photo EXCEPT
        !.history = Append(@, [path |-> op.old_path, operation |-> "rename"]),
        !.absolute_path =
            [dir |-> op.new_dir[1], stem |-> op.new_path[1], suffix |-> op.photo.extension] ]

\* the Photo of an operation after _add_copy_history: the copy is added to
\* its history, its path stays
copied_photo(op) ==
    [ op.photo EXCEPT
        !.history = Append(@, [original_path |-> op.old_path,
                               copied_to |-> op.new_path[1],
                               operation |-> "copy"]) ]

\* PhotoRenameService._execute_rename_operations: an operation without
\* new_path is passed over, one whose file is gone fails and is logged
_execute_rename_operations(ops, copy_mode, filesystem) ==
    LET assigned == { i \in 1..Len(ops) : ops[i].new_path # <<>> }
        done == { i \in assigned : path_exists(filesystem, ops[i].old_path) }
        pairs == { [old_path |-> ops[i].old_path, new_path |-> ops[i].new_path[1]] :
                     i \in done }
    IN  [ processed_count |-> Cardinality(done),
          done |-> done,
          filesystem |->
              [ filesystem EXCEPT
                  !.new_dirs = @ \cup { ops[i].new_dir[1] : i \in assigned },
                  !.moved = IF copy_mode THEN @ ELSE @ \cup pairs,
                  !.copied = IF copy_mode THEN @ \cup pairs ELSE @ ] ]

\* the groups of the manager after the moves or copies: the Photos of the
\* operations that were done, as the history call leaves them
groups_after_moves(gs, ops, done, copy_mode) ==
    [ g \in 1..Len(gs) |->
        [ gs[g] EXCEPT !.photos =
            [ i \in 1..Len(gs[g].photos) |->
                LET mine == { k \in done : /\ ops[k].group.basename = gs[g].basename
                                           /\ ops[k].photo = gs[g].photos[i] }
                IN  IF mine = {} THEN gs[g].photos[i]
                    ELSE IF copy_mode THEN copied_photo(ops[CHOOSE k \in mine : TRUE])
                    ELSE moved_photo(ops[CHOOSE k \in mine : TRUE]) ] ] ]

\* PhotoGroupManager.save_to_json, extracted[g] being what to_dict's
\* extract_metadata call gives for group g: to_dict aggregates every group
\* first, so an exception leaves the file as it was
save_to_json(gs, filesystem, extracted) ==
    IF \E g \in 1..Len(gs) : extracted[g].raised # ""
    THEN [ raised |-> extracted[CHOOSE g \in 1..Len(gs) :
                                    extracted[g].raised # ""].raised,
           filesystem |-> filesystem ]
    ELSE [ raised |-> "",
           filesystem |-> [filesystem EXCEPT !.database = gs,
                                             !.database_written = TRUE] ]

\* the local variables of rename_photos before they are assigned
NoLocals ==
    [ valid_groups |-> <<>>, problematic_groups |-> <<>>, groups_to_process |-> <<>>,
      invalid_metadata_count |-> 0, processed_count |-> <<>> ]

\* the results dictionary rename_photos returns
results(database_updated) ==
    [ total_groups_processed   |-> Len(locals.groups_to_process),
      problematic_groups_moved |-> IF flags.skip_invalid
                                   THEN Len(locals.problematic_groups) ELSE 0,
      invalid_metadata_skipped |-> locals.invalid_metadata_count,
      total_files              |-> Len(operations),
      processed_count          |-> locals.processed_count,
      database_updated         |-> database_updated ]

\* manager = self.repository.load(str(database_path))
rename_photos_load ==
    /\ pc = "start"
    /\ groups' = fs.database
    /\ pc' = "mkdir"
    /\ UNCHANGED <<photos, metadata_cache, meta, queried, query_count, ret,
                   scheme, flags, group_metadata, operations, locals, fs>>

\* the destination directory made whatever dry_run says
rename_photos_mkdir_always ==
    /\ pc = "mkdir"
    /\ fs' = [fs EXCEPT !.destination_created = TRUE]
    /\ pc' = "validate"
    /\ UNCHANGED <<photos, metadata_cache, meta, queried, query_count, ret,
                   scheme, groups, flags, group_metadata, operations, locals>>

\* if not dry_run: destination.mkdir(parents=True, exist_ok=True)
rename_photos_mkdir ==
    /\ pc = "mkdir"
    /\ fs' = IF ~flags.dry_run THEN [fs EXCEPT !.destination_created = TRUE] ELSE fs
    /\ pc' = "validate"
    /\ UNCHANGED <<photos, metadata_cache, meta, queried, query_count, ret,
                   scheme, groups, flags, group_metadata, operations, locals>>

\* self._validate_naming_scheme(scheme)
rename_photos_validate ==
    /\ pc = "validate"
    /\ IF invalid_placeholders(scheme) # {}
       THEN /\ ret' = [op |-> "rename_photos", raised |-> "ValueError", value |-> <<>>]
            /\ pc' = "raised"
       ELSE /\ ret' = ret
            /\ pc' = "classify"
    /\ UNCHANGED <<photos, metadata_cache, meta, queried, query_count,
                   scheme, groups, flags, group_metadata, operations, locals, fs>>

\* the two lists of a classification are kept
classified_as(classified) ==
    locals' = [locals EXCEPT !.valid_groups = classified.valid_groups,
                             !.problematic_groups = classified.problematic_groups]

\* valid_groups, problematic_groups = self._classify_groups(...)
rename_photos_classify ==
    /\ pc = "classify"
    /\ classified_as(_classify_groups(groups, fs))
    /\ pc' = "handle"
    /\ UNCHANGED <<photos, metadata_cache, meta, queried, query_count, ret,
                   scheme, groups, flags, group_metadata, operations, fs>>

\* the skip_invalid branch, has_required[i] telling whether valid group i
\* has the metadata the scheme needs: the problematic groups, then the valid
\* groups without that metadata, go to error folders unless dry_run
skip_problematic_groups(has_required) ==
    LET groups_to_process ==
            SubseqAt(locals.valid_groups,
                { i \in 1..Len(locals.valid_groups) : has_required[i] })
        groups_missing_metadata ==
            SubseqAt([ i \in 1..Len(locals.valid_groups) |->
                         [group |-> locals.valid_groups[i], error_type |-> "MISSING_DATE"] ],
                { i \in 1..Len(locals.valid_groups) : ~has_required[i] })
        fs1 == IF ~flags.dry_run /\ locals.problematic_groups # <<>>
               THEN _handle_problematic_groups_in_source(locals.problematic_groups, fs)
               ELSE fs
    IN  /\ fs' = IF ~flags.dry_run /\ groups_missing_metadata # <<>>
                 THEN _handle_problematic_groups_in_source(groups_missing_metadata, fs1)
                 ELSE fs1
        /\ locals' = [locals EXCEPT
               !.groups_to_process = groups_to_process,
               !.problematic_groups =
                   IF ~flags.dry_run /\ groups_missing_metadata # <<>>
                   THEN @ \o groups_missing_metadata ELSE @,
               !.invalid_metadata_count = Len(groups_missing_metadata)]

\* the branch on skip_invalid
rename_photos_handle_problematic ==
    /\ pc = "handle"
    /\ IF flags.skip_invalid
       THEN skip_problematic_groups(
                [ i \in 1..Len(locals.valid_groups) |->
                    _group_has_required_metadata(scheme,
                        group_extract_metadata(locals.valid_groups[i])) ])
       ELSE /\ fs' = fs
            /\ locals' = [locals EXCEPT
                   !.groups_to_process =
                       locals.valid_groups
                           \o [ i \in 1..Len(locals.problematic_groups) |->
                                  locals.problematic_groups[i].group ],
                   !.invalid_metadata_count = 0]
    /\ pc' = "generate"
    /\ UNCHANGED <<photos, metadata_cache, meta, queried, query_count, ret,
                   scheme, groups, flags, group_metadata, operations>>

\* the end of a step of rename_photos whose call gave outcome r: its
\* exception ends the run
step_outcome(r, next_pc) ==
    IF r.raised # ""
    THEN /\ ret' = [op |-> "rename_photos", raised |-> r.raised, value |-> <<>>]
         /\ pc' = "raised"
    ELSE /\ ret' = ret
         /\ pc' = next_pc

\* the operations planned by a call with outcome r
generated(r) ==
    /\ operations' = r.value
    /\ step_outcome(r, "sequence_run")

\* rename_operations = self._generate_rename_operations(...)
rename_photos_generate ==
    /\ pc = "generate"
    /\ generated(_generate_rename_operations(locals.groups_to_process, Destination, scheme))
    /\ UNCHANGED <<photos, metadata_cache, meta, queried, query_count,
                   scheme, groups, flags, group_metadata, locals, fs>>

\* the operations sequenced by a call with outcome r
assigned(r) ==
    /\ operations' = r.operations
    /\ step_outcome(r, "execute")

\* self._apply_sequences_to_operations(rename_operations, sequence_digits)
rename_photos_sequence ==
    /\ pc = "sequence_run"
    /\ assigned(_apply_sequences_to_operations(operations, flags.sequence_digits))
    /\ UNCHANGED <<photos, metadata_cache, meta, queried, query_count,
                   scheme, groups, flags, group_metadata, locals, fs>>

\* the state after _execute_rename_operations gave outcome r
executed(r) ==
    /\ fs' = r.filesystem
    /\ groups' = groups_after_moves(groups, operations, r.done, flags.copy_mode)
    /\ locals' = [locals EXCEPT !.processed_count = <<r.processed_count>>]
    /\ ret' = ret
    /\ pc' = "save"

\* the report of a dry run, or self._execute_rename_operations(...)
rename_photos_execute ==
    /\ pc = "execute"
    /\ IF flags.dry_run
       THEN /\ ret' = [op |-> "rename_photos", raised |-> "", value |-> <<results(<<>>)>>]
            /\ pc' = "done"
            /\ UNCHANGED <<groups, locals, fs>>
       ELSE executed(_execute_rename_operations(operations, flags.copy_mode, fs))
    /\ UNCHANGED <<photos, metadata_cache, meta, queried, query_count,
                   scheme, flags, group_metadata, operations>>

\* the groups left in the manager when the database is saved
remaining_groups ==
    IF flags.skip_invalid /\ locals.problematic_groups # <<>>
    THEN SelectSeq(groups, LAMBDA g :
             g.basename \notin { locals.problematic_groups[i].group.basename :
                                   i \in 1..Len(locals.problematic_groups) })
    ELSE groups

\* the state after save_to_json gave outcome saved
database_saved(remaining, saved) ==
    /\ groups' = remaining
    /\ fs' = saved.filesystem
    /\ IF saved.raised # ""
       THEN /\ ret' = [op |-> "rename_photos", raised |-> saved.raised, value |-> <<>>]
            /\ pc' = "raised"
       ELSE /\ ret' = [op |-> "rename_photos", raised |-> "",
                       value |-> <<results(<<TRUE>>)>>]
            /\ pc' = "done"

\* after a move run the problematic groups leave the manager and the
\* database is saved; after a copy run the database is left alone
rename_photos_save ==
    /\ pc = "save"
    /\ IF ~flags.copy_mode
       THEN database_saved(remaining_groups,
                save_to_json(remaining_groups, fs,
                    [ g \in 1..Len(remaining_groups) |->
                        group_extract_metadata(remaining_groups[g]) ]))
       ELSE /\ ret' = [op |-> "rename_photos", raised |-> "",
                       value |-> <<results(<<FALSE>>)>>]
            /\ pc' = "done"
            /\ UNCHANGED <<groups, fs>>
    /\ UNCHANGED <<photos, metadata_cache, meta, queried, query_count,
                   scheme, flags, group_metadata, operations, locals>>

\* the files that are deleted behind the back of a run
VanishedSets == { {}, {File("d1", "a", ".jpg")}, {File("d1", "b", ".jpg")} }

InitRename ==
    /\ photos = <<>>
    /\ metadata_cache = <<>>
    /\ meta \in Backends
    /\ queried = <<>>
    /\ query_count = 0
    /\ ret = [op |-> "init", raised |-> "", value |-> <<>>]
    /\ scheme \in Schemes
    /\ groups = <<>>
    /\ \E dry_run \in BOOLEAN, copy_mode \in BOOLEAN, skip_invalid \in BOOLEAN :
           flags = [sequence_digits |-> 3, dry_run |-> dry_run,
                    copy_mode |-> copy_mode, skip_invalid |-> skip_invalid]
    /\ group_metadata = <<>>
    /\ operations = <<>>
    /\ pc = "start"
    /\ locals = NoLocals
    /\ \E database \in GroupLists, vanished \in VanishedSets :
           fs = [InitialFs(database) EXCEPT !.vanished = vanished]

NextRename ==
    \/ rename_photos_load
    \/ rename_photos_mkdir
    \/ rename_photos_validate
    \/ rename_photos_classify
    \/ rename_photos_handle_problematic
    \/ rename_photos_generate
    \/ rename_photos_sequence
    \/ rename_photos_execute
    \/ rename_photos_save

SpecRename == InitRename /\ [][NextRename]_vars

\* C4 as stated: with a {...} token outside the recognized set in the scheme
\* the run ends in an error and touches nothing: no directory is created,
\* no file is moved, copied or quarantined, the database is not rewritten.
C4_InvalidSchemeFailsBeforeAnyIO ==
    invalid_placeholders(scheme) # {} =>
        /\ pc # "done"
        /\ pc = "raised" => ret.raised = "ValueError"
        /\ fs = [InitialFs(fs.database) EXCEPT !.vanished = fs.vanished]

\* C5 as stated: every step of a run that changes the file system comes
\* after sequence assignment: no directory is created and no file is moved
\* or copied before every operation has its final destination.
C5_SequencingBeforeAnyMutation ==
    [][ fs' # fs => pc \in {"execute", "save"} ]_vars

C17_MissingDateOnlyWhenNeeded ==
    (flags.skip_invalid /\ pc = "generate") =>
        \A g \in 1..Len(groups) :
            ( /\ is_valid(groups[g].photos)
              /\ \A i \in 1..Len(groups[g].photos) :
                     groups[g].photos[i].absolute_path \notin fs.vanished
              /\ aggregate_date_of(groups[g]) = 0 ) =>
                IF \E c \in 1..Len(scheme) :
                       scheme[c] \in {"{date}", "{datetime}", "{year}", "{month}",
                                      "{day}", "{hour}", "{minute}", "{second}"}
                THEN /\ \A k \in 1..Len(locals.groups_to_process) :
                            locals.groups_to_process[k] # groups[g]
                     /\ \E k \in 1..Len(locals.problematic_groups) :
                            /\ locals.problematic_groups[k].group = groups[g]
                            /\ locals.problematic_groups[k].error_type = "MISSING_DATE"
                ELSE \E k \in 1..Len(locals.groups_to_process) :
                         locals.groups_to_process[k] = groups[g]

\* C18 as stated: in a run without skip_invalid every loaded group is
\* planned, whatever its classification: no file goes to an error folder,
\* groups_to_process holds every group, planning succeeds and the operation
\* list holds one operation for every Photo of every group.
C18_AllGroupsPlanned ==
    ( /\ ~flags.skip_invalid
      /\ invalid_placeholders(scheme) = {}
      /\ pc \notin {"start", "mkdir", "validate", "classify", "handle"} ) =>
        /\ fs.error_folders = {}
        /\ pc # "raised"
        /\ pc = "generate" =>
             /\ Len(locals.groups_to_process) = Len(groups)
             /\ \A g \in 1..Len(groups) :
                    \E k \in 1..Len(locals.groups_to_process) :
                        locals.groups_to_process[k] = groups[g]
        /\ pc \in {"sequence_run", "execute"} =>
             \A g \in 1..Len(groups) :
                 \A i \in 1..Len(groups[g].photos) :
                     Cardinality({ k \in 1..Len(operations) :
                                     /\ operations[k].group.basename = groups[g].basename
                                     /\ operations[k].photo = groups[g].photos[i] }) = 1

(***************************************************************************)
(* Planning and sequence assignment for groups whose aggregate record is   *)
(* at hand (the cached record extract_metadata returns without building a  *)
(* new one), with values that the sanitizer empties.                       *)
(***************************************************************************)
\* the aggregate records of the planned groups
PlanRecords ==
    { [ camera      |-> [CameraInfoWithSource EXCEPT !.make = make,
                                                     !.lens_model = lens_model],
        dates       |-> [DateInfoWithSource EXCEPT !.date_taken = date_taken],
        technical   |-> [TechnicalInfoWithSource EXCEPT !.iso = iso],
        keywords    |-> <<>>,
        source_file |-> <<"group:">> ] :
        make \in {"Canon", ":", ".."},
        lens_model \in {"", "RF"},
        date_taken \in {0, 2},
        iso \in {0, 100} }

\* a group of the database that holds record as its cached aggregate
PlanGroup(group, record) ==
    [ group EXCEPT !.metadata_cache = PhotoMetadataWithSource(record).value ]

\* the schemes of these plans: those of the runs, a make alone and a make
\* as the last segment
PlanSchemes ==
    Schemes \cup { <<"{camera_make}">>, <<"d", "/", "{camera_make}">> }

InitPlan ==
    /\ photos = <<>>
    /\ metadata_cache = <<>>
    /\ meta = <<1, 1, 1>>
    /\ queried = <<>>
    /\ query_count = 0
    /\ ret = [op |-> "init", raised |-> "", value |-> <<>>]
    /\ flags = NoFlags
    /\ group_metadata = <<>>
    /\ locals = <<>>
    /\ fs = <<>>
    /\ pc = "plan"
    /\ scheme \in PlanSchemes
    /\ \E record \in PlanRecords :
           groups \in { <<PlanGroup(GroupA, record)>>,
                        <<PlanGroup(GroupB, record), PlanGroup(GroupA, record)>> }
    /\ operations = <<>>

SpecPlan == InitPlan /\ [][NextSeq]_vars

C23_CopyModeLeavesOriginals ==
    flags.copy_mode =>
        /\ \A g \in 1..Len(fs.database) :
               \A i \in 1..Len(fs.database[g].photos) :
                   fs.database[g].photos[i].absolute_path \notin fs.vanished
                       => path_exists(fs, fs.database[g].photos[i].absolute_path)
        /\ pc # "start" =>
               /\ Len(groups) = Len(fs.database)
               /\ \A g \in 1..Len(groups) :
                      \A i \in 1..Len(groups[g].photos) :
                          groups[g].photos[i].absolute_path
                              = fs.database[g].photos[i].absolute_path
        /\ ~fs.database_written

(***************************************************************************)
(* models/photo_group.py: PhotoGroupManager, saving and loading a database *)
(***************************************************************************)
\* PhotoGroupManager.add_photo: the Photo goes to the group of its basename,
\* which is created when it is not there
manager_add_photo(gs, photo) ==
    LET S == { g \in 1..Len(gs) : gs[g].basename = photo.basename }
    IN  IF S = {}
        THEN Append(gs, [ basename |-> photo.basename,
                          photos |-> <<photo>>,
                          metadata_cache |-> <<>> ])
        ELSE [ gs EXCEPT ![CHOOSE g \in S : TRUE] =
                 [ @ EXCEPT !.photos = DictSet(@, photo.extension, photo),
                            !.metadata_cache = <<>> ] ]

\* the loop of from_dict over the photo entries of the document, in order:
\* an entry whose file is there becomes a Photo again and is added, an entry
\* whose file is gone is logged and passed over
RECURSIVE from_dict_loop(_, _, _, _)
from_dict_loop(manager, photo_data, k, filesystem) ==
    IF k > Len(photo_data) THEN manager
    ELSE from_dict_loop(
             IF path_exists(filesystem, photo_data[k].absolute_path)
             THEN manager_add_photo(manager, Photo(photo_data[k].absolute_path))
             ELSE manager,
             photo_data, k + 1, filesystem)

\* PhotoGroupManager.from_dict
from_dict(data, filesystem) ==
    from_dict_loop(<<>>, Concat([ g \in 1..Len(data) |-> data[g].photos ]), 1, filesystem)

\* the state after save_to_json gave outcome saved
stored(saved) ==
    /\ fs' = saved.filesystem
    /\ ret' = [op |-> "save_to_json", raised |-> saved.raised, value |-> <<>>]
    /\ pc' = IF saved.raised = "" THEN "stored" ELSE "raised"

\* manager.save_to_json(path) on the manager that a scan has built; the
\* manager is kept for comparison
save_database ==
    /\ pc = "built"
    /\ stored(save_to_json(groups, fs,
                  [ g \in 1..Len(groups) |-> group_extract_metadata(groups[g]) ]))
    /\ locals' = <<groups>>
    /\ UNCHANGED <<photos, metadata_cache, meta, queried, query_count,
                   scheme, groups, flags, group_metadata, operations>>

\* PhotoGroupManager.load_from_json(path) on the document on disk
load_database ==
    /\ pc = "stored"
    /\ groups' = from_dict(fs.database, fs)
    /\ ret' = [op |-> "load_from_json", raised |-> "", value |-> <<>>]
    /\ pc' = "loaded"
    /\ UNCHANGED <<photos, metadata_cache, meta, queried, query_count,
                   scheme, flags, group_metadata, operations, locals, fs>>

\* either a manager has been built and is about to be saved, or a document
\* is on disk already; some files vanish before the document is loaded
InitStore ==
    /\ photos = <<>>
    /\ metadata_cache = <<>>
    /\ meta \in Backends
    /\ queried = <<>>
    /\ query_count = 0
    /\ ret = [op |-> "init", raised |-> "", value |-> <<>>]
    /\ scheme = <<>>
    /\ flags = NoFlags
    /\ group_metadata = <<>>
    /\ operations = <<>>
    /\ locals = <<>>
    /\ \E vanished \in VanishedSets :
           \/ /\ pc = "built"
              /\ groups \in GroupLists \cup ScenarioGroupLists
              /\ fs = [InitialFs(<<>>) EXCEPT !.vanished = vanished]
           \/ /\ pc = "stored"
              /\ groups = <<>>
              /\ \E database \in GroupLists \cup ScenarioGroupLists :
                     fs = [InitialFs(database) EXCEPT !.vanished = vanished]

NextStore ==
    \/ save_database
    \/ load_database

SpecStore == InitStore /\ [][NextStore]_vars

\* C20 as stated: the program saves the document of the manager it has
\* built, and loading a document it has saved gives, without an error, the
\* groups of the saved manager with the Photos whose files are still there:
\* the same basenames with the same Photos, a group left with no Photo being
\* gone.
C20_SaveLoadRoundTrip ==
    /\ ret.op = "save_to_json" => ret.raised = ""
    /\ (pc = "loaded" /\ locals # <<>>) =>
         /\ ret.raised = ""
         /\ groups =
              SelectSeq(
                  [ g \in 1..Len(locals[1]) |->
                      [ locals[1][g] EXCEPT !.photos =
                          SelectSeq(@, LAMBDA photo :
                              photo.absolute_path \notin fs.vanished) ] ],
                  LAMBDA group : group.photos # <<>>)

(***************************************************************************)
(* services/rename_service.py: _execute_rename_operations, one operation   *)
(* of a sequenced plan after the other                                     *)
(***************************************************************************)
\* the loop body with processed_count += 1 and the history call moved in
\* front of the copy or move
_execute_rename_operations_body_counted_first(op, copy_mode, filesystem) ==
    IF op.new_path = <<>> \/ op.new_dir = <<>>
    THEN [outcome |-> "missing keys", filesystem |-> filesystem]
    ELSE [ outcome |-> "processed",
           filesystem |->
               IF ~path_exists(filesystem, op.old_path)
               THEN [filesystem EXCEPT !.new_dirs = @ \cup {op.new_dir[1]}]
               ELSE [ filesystem EXCEPT
                        !.new_dirs = @ \cup {op.new_dir[1]},
                        !.moved = IF copy_mode THEN @
                                  ELSE @ \cup {[old_path |-> op.old_path,
                                                new_path |-> op.new_path[1]]},
                        !.copied = IF copy_mode
                                   THEN @ \cup {[old_path |-> op.old_path,
                                                 new_path |-> op.new_path[1]]}
                                   ELSE @ ] ]

\* the try block of the loop of _execute_rename_operations for one
\* operation: new_dir is made, then the file is copied or moved, which
\* raises when the file is gone; the handler logs the exception
_execute_rename_operations_body(op, copy_mode, filesystem) ==
    IF op.new_path = <<>> \/ op.new_dir = <<>>
    THEN [outcome |-> "missing keys", filesystem |-> filesystem]
    ELSE IF ~path_exists(filesystem, op.old_path)
    THEN [ outcome |-> "failed",
           filesystem |-> [filesystem EXCEPT !.new_dirs = @ \cup {op.new_dir[1]}] ]
    ELSE [ outcome |-> "processed",
           filesystem |->
               [ filesystem EXCEPT
                   !.new_dirs = @ \cup {op.new_dir[1]},
                   !.moved = IF copy_mode THEN @
                             ELSE @ \cup {[old_path |-> op.old_path,
                                           new_path |-> op.new_path[1]]},
                   !.copied = IF copy_mode
                              THEN @ \cup {[old_path |-> op.old_path,
                                            new_path |-> op.new_path[1]]}
                              ELSE @ ] ]

\* the state after the loop body gave r for operation k: the Photo has its
\* history entry when the copy or move was done, the count goes up, the log
\* has the line of the operation
operation_executed(k, r) ==
    /\ fs' = r.filesystem
    /\ groups' = IF r.outcome = "processed"
                 THEN groups_after_moves(groups, operations, {k}, flags.copy_mode)
                 ELSE groups
    /\ locals' = [ k               |-> k + 1,
                   processed_count |-> locals.processed_count
                                           + (IF r.outcome = "processed" THEN 1 ELSE 0),
                   log             |-> Append(locals.log,
                                              [operation |-> k, outcome |-> r.outcome]) ]

\* one pass of "for op in rename_operations"
execute_rename_operation ==
    /\ pc = "executing"
    /\ locals.k <= Len(operations)
    /\ operation_executed(locals.k,
           _execute_rename_operations_body(operations[locals.k], flags.copy_mode, fs))
    /\ UNCHANGED <<photos, metadata_cache, meta, queried, query_count, ret,
                   scheme, flags, group_metadata, operations, pc>>

\* return processed_count
execute_rename_operations_return ==
    /\ pc = "executing"
    /\ locals.k > Len(operations)
    /\ ret' = [op |-> "_execute_rename_operations", raised |-> "",
               value |-> <<locals.processed_count>>]
    /\ pc' = "executed"
    /\ UNCHANGED <<photos, metadata_cache, meta, queried, query_count,
                   scheme, groups, flags, group_metadata, operations, locals, fs>>

\* the plans that reach execution: the operation lists whose sequence
\* assignment returns
SequencedOperationLists ==
    { r.operations :
        r \in { q \in { _apply_sequences_to_operations(ops, 3) : ops \in OperationLists } :
                  q.raised = "" } }

\* the groups of a plan, in the order of the plan
groups_of(ops) ==
    FirstOccurrences([i \in 1..Len(ops) |-> ops[i].group])

InitExec ==
    /\ photos = <<>>
    /\ metadata_cache = <<>>
    /\ meta \in Backends
    /\ queried = <<>>
    /\ query_count = 0
    /\ ret = [op |-> "init", raised |-> "", value |-> <<>>]
    /\ scheme = <<>>
    /\ \E copy_mode \in BOOLEAN :
           flags = [NoFlags EXCEPT !.copy_mode = copy_mode]
    /\ group_metadata = <<>>
    /\ operations \in SequencedOperationLists
    /\ groups = groups_of(operations)
    /\ pc = "executing"
    /\ locals = [k |-> 1, processed_count |-> 0, log |-> <<>>]
    /\ \E vanished \in VanishedSets :
           fs = [InitialFs(groups) EXCEPT !.vanished = vanished,
                                          !.destination_created = TRUE]

NextExec ==
    \/ execute_rename_operation
    \/ execute_rename_operations_return

SpecExec == InitExec /\ [][NextExec]_vars

\* the Photo of operation k as the manager holds it now
photo_of_operation(k) ==
    LET g == CHOOSE g \in 1..Len(groups) :
                 groups[g].basename = operations[k].group.basename
        i == CHOOSE i \in 1..Len(operations[k].group.photos) :
                 operations[k].group.photos[i] = operations[k].photo
    IN  groups[g].photos[i]

\* C21: during execution a copy or move that fails is caught and passed
\* over: the operations are attempted in the order of the list, each one
\* once, the ones after a failure included; an operation that was done stays
\* done (its file is at the new path, its Photo has the history entry, and
\* in a move the new path); the Photo of a failed operation is as it was and
\* its file is nowhere new; the call never raises, and the number it returns
\* is the number of operations that were done.
C21_FailuresSkippedNotRolledBack ==
    LET attempted == 1..Len(locals.log)
        gone(k) == operations[k].old_path \in fs.vanished
        pair(k) == [old_path |-> operations[k].old_path,
                    new_path |-> operations[k].new_path[1]]
    IN  /\ Len(locals.log) = locals.k - 1
        /\ \A k \in attempted : locals.log[k].operation = k
        /\ pc = "executed" => /\ Len(locals.log) = Len(operations)
                              /\ ret.raised = ""
                              /\ ret.value = <<locals.processed_count>>
        /\ locals.processed_count = Cardinality({ k \in attempted : ~gone(k) })
        /\ \A k \in attempted :
               IF gone(k)
               THEN /\ photo_of_operation(k) = operations[k].photo
                    /\ pair(k) \notin fs.moved \cup fs.copied
               ELSE /\ pair(k) \in (IF flags.copy_mode THEN fs.copied ELSE fs.moved)
                    /\ photo_of_operation(k) =
                           IF flags.copy_mode THEN copied_photo(operations[k])
                           ELSE moved_photo(operations[k])
        /\ \A k \in 1..Len(operations) :
               k \notin attempted => photo_of_operation(k) = operations[k].photo

\* an execution is over in which the first operation failed and a later one
\* was done
C21_Witness ==
    /\ pc = "executed"
    /\ Len(operations) >= 2
    /\ locals.log[1].outcome = "failed"
    /\ \E k \in 2..Len(operations) : locals.log[k].outcome = "processed"
    /\ ret.value = <<Len(operations) - 1>>

(***************************************************************************)
(* models/photo_group.py: PhotoGroupManager over the files of a directory  *)
(***************************************************************************)
\* the directories that are scanned, each the set of the files under it
Directories ==
    { {},
      { File("d1", "a", ".jpg"), File("d2", "a", ".jpg"), File("d1", "a", ".xmp"),
        File("d1", "note", ".txt") },
      { File("d1", "a", ".jpg"), File("d1", "b", ".xmp"), File("d1", "b", ".thm"),
        File("d1", "c", ".mov") },
      { File("d1", "a", ".jpg"), File("d1", "b", ".jpg"), File("d1", "c", ".mov") } }

\* the orders in which directory.glob can give the files in files
GlobOrders(files) ==
    { order \in [1..Cardinality(files) -> files] :
        \A i, j \in 1..Cardinality(files) : i # j => order[i] # order[j] }

\* the loop of scan_directory over the files glob gives: a file with a
\* supported extension becomes a Photo, is added and is counted
RECURSIVE scan_directory_loop(_, _, _, _)
scan_directory_loop(manager, found, k, photos_found) ==
    IF k > Len(found) THEN [manager |-> manager, photos_found |-> photos_found]
    ELSE IF Lower(found[k].suffix) \notin get_all_supported_formats
    THEN scan_directory_loop(manager, found, k + 1, photos_found)
    ELSE scan_directory_loop(manager_add_photo(manager, Photo(found[k])),
                             found, k + 1, photos_found + 1)

\* PhotoGroupManager.scan_directory, found being the files in glob's order
scan_directory(manager, found) ==
    scan_directory_loop(manager, found, 1, 0)

\* PhotoGroupManager.get_valid_groups
get_valid_groups(manager) ==
    SelectSeq(manager, LAMBDA group : is_valid(group.photos))

\* get_invalid_groups giving the groups of sidecars only
get_invalid_groups_sidecars_only(manager) ==
    SelectSeq(manager, LAMBDA group :
        \A i \in 1..Len(group.photos) :
            group.photos[i].format_classification = "sidecar")

\* PhotoGroupManager.get_invalid_groups
get_invalid_groups(manager) ==
    SelectSeq(manager, LAMBDA group : ~is_valid(group.photos))

\* PhotoGroupManager.remove_invalid_groups: the manager without the groups
\* whose basenames get_invalid_groups gave, and their number
remove_invalid_groups(manager) ==
    LET invalid_basenames ==
            [ i \in 1..Len(get_invalid_groups(manager)) |->
                get_invalid_groups(manager)[i].basename ]
    IN  [ manager |-> SelectSeq(manager, LAMBDA group :
                          \A i \in 1..Len(invalid_basenames) :
                              invalid_basenames[i] # group.basename),
          value |-> Len(invalid_basenames) ]

\* PhotoGroupManager.total_groups
total_groups(manager) == Len(manager)

\* PhotoGroupManager.total_photos
RECURSIVE total_photos(_)
total_photos(manager) ==
    IF manager = <<>> THEN 0
    ELSE Len(Head(manager).photos) + total_photos(Tail(manager))

\* PhotoGroupManager.total_valid_groups
total_valid_groups(manager) == Len(get_valid_groups(manager))

\* PhotoGroupManager.total_invalid_groups
total_invalid_groups(manager) == Len(get_invalid_groups(manager))

\* manager.add_photo(Photo(f)) for a file of the directory
manager_add_photo_call ==
    /\ pc = "manager"
    /\ \E f \in { g \in fs.files : Lower(g.suffix) \in get_all_supported_formats } :
           /\ groups' = manager_add_photo(groups, Photo(f))
           /\ ret' = [op |-> "add_photo", raised |-> "", value |-> <<Photo(f).basename>>]
    /\ UNCHANGED <<photos, metadata_cache, meta, queried, query_count,
                   scheme, flags, group_metadata, operations, pc, locals, fs>>

\* manager.remove_group(basename)
manager_remove_group ==
    /\ pc = "manager"
    /\ \E basename \in {"a", "b", "c", "note"} :
           /\ groups' = SelectSeq(groups, LAMBDA group : group.basename # basename)
           /\ ret' = [op |-> "remove_group", raised |-> "",
                      value |-> SelectSeq(groups, LAMBDA group : group.basename = basename)]
    /\ UNCHANGED <<photos, metadata_cache, meta, queried, query_count,
                   scheme, flags, group_metadata, operations, pc, locals, fs>>

\* the state after remove_invalid_groups gave r
invalid_groups_removed(r) ==
    /\ groups' = r.manager
    /\ ret' = [op |-> "remove_invalid_groups", raised |-> "", value |-> <<r.value>>]

\* manager.remove_invalid_groups()
manager_remove_invalid_groups ==
    /\ pc = "manager"
    /\ invalid_groups_removed(remove_invalid_groups(groups))
    /\ UNCHANGED <<photos, metadata_cache, meta, queried, query_count,
                   scheme, flags, group_metadata, operations, pc, locals, fs>>

\* the state after scan_directory gave r
directory_scanned(r) ==
    /\ groups' = r.manager
    /\ ret' = [op |-> "scan_directory", raised |-> "", value |-> <<r.photos_found>>]

\* manager.scan_directory(directory)
manager_scan_directory ==
    /\ pc = "manager"
    /\ \E found \in GlobOrders(fs.files) :
           directory_scanned(scan_directory(groups, found))
    /\ UNCHANGED <<photos, metadata_cache, meta, queried, query_count,
                   scheme, flags, group_metadata, operations, pc, locals, fs>>

InitManager ==
    /\ photos = <<>>
    /\ metadata_cache = <<>>
    /\ meta \in Backends
    /\ queried = <<>>
    /\ query_count = 0
    /\ ret = [op |-> "init", raised |-> "", value |-> <<>>]
    /\ scheme = <<>>
    /\ groups = <<>>
    /\ flags = NoFlags
    /\ group_metadata = <<>>
    /\ operations = <<>>
    /\ pc = "manager"
    /\ locals = <<>>
    /\ \E files \in Directories : fs = [files |-> files]

NextManager ==
    \/ manager_add_photo_call
    \/ manager_remove_group
    \/ manager_remove_invalid_groups
    \/ manager_scan_directory

SpecManager == InitManager /\ [][NextManager]_vars

\* C22: after any sequence of add_photo, remove_group and
\* remove_invalid_groups (and scans) every group is stored under its own
\* basename, one group per basename, and holds only Photos of that basename;
\* the valid and the invalid groups are filters of the groups that split
\* them by is_valid, so that their numbers add up to total_groups; and a
\* call of remove_invalid_groups leaves exactly the valid groups, each as it
\* was and in the order they had, and returns the number of invalid groups
\* there were.
C22_ManagerKeyedAndPartitioned ==
    /\ [] ( /\ \A g, h \in 1..Len(groups) :
                  groups[g].basename = groups[h].basename => g = h
            /\ \A g \in 1..Len(groups) :
                  \A i \in 1..Len(groups[g].photos) :
                      groups[g].photos[i].basename = groups[g].basename
            /\ \A g \in 1..Len(groups) :
                  /\ is_valid(groups[g].photos) =>
                         /\ \E k \in 1..Len(get_valid_groups(groups)) :
                                get_valid_groups(groups)[k] = groups[g]
                         /\ \A k \in 1..Len(get_invalid_groups(groups)) :
                                get_invalid_groups(groups)[k] # groups[g]
                  /\ ~is_valid(groups[g].photos) =>
                         /\ \E k \in 1..Len(get_invalid_groups(groups)) :
                                get_invalid_groups(groups)[k] = groups[g]
                         /\ \A k \in 1..Len(get_valid_groups(groups)) :
                                get_valid_groups(groups)[k] # groups[g]
            /\ total_valid_groups(groups) + total_invalid_groups(groups)
                   = total_groups(groups) )
    /\ [][ ret'.op = "remove_invalid_groups" =>
             /\ groups' = SelectSeq(groups, LAMBDA group : is_valid(group.photos))
             /\ ret'.value = <<Cardinality({ g \in 1..Len(groups) :
                                               ~is_valid(groups[g].photos) })>>
             /\ total_invalid_groups(groups') = 0 ]_vars

\* remove_invalid_groups has removed two invalid groups, one of them a live
\* photo alone, and left the valid one
C22_Witness ==
    /\ ret.op = "remove_invalid_groups"
    /\ ret.value = <<2>>
    /\ Len(groups) = 1
    /\ groups[1].basename = "a"
    /\ File("d1", "c", ".mov") \in fs.files

\* C30 as stated: a scan of a directory by a fresh manager drops no file:
\* the number scan_directory returns is total_photos afterwards, and every
\* file of the directory with a supported extension is the file of a Photo
\* of some group.
C30_ScanDropsNoFile ==
    [][ (ret'.op = "scan_directory" /\ groups = <<>>) =>
            /\ ret'.value = <<total_photos(groups')>>
            /\ \A f \in { g \in fs.files :
                            Lower(g.suffix) \in get_all_supported_formats } :
                   \E g \in 1..Len(groups') :
                       \E i \in 1..Len(groups'[g].photos) :
                           groups'[g].photos[i].absolute_path = f ]_vars

(***************************************************************************)
(* services/error_handling_service.py: moving files to an error folder     *)
(***************************************************************************)
\* the number of files that are written to the source directories
MaxWritten == 4

\* self.error_folders
error_folders(error_type) ==
    CASE error_type = "MISSING_DATE"       -> "_ERROR_MISSING_DATE"
      [] error_type = "INVALID_FILE"       -> "_ERROR_INVALID"
      [] error_type = "CORRUPTED_FILE"     -> "_ERROR_CORRUPTED"
      [] error_type = "PERMISSION_ERROR"   -> "_ERROR_PERMISSION"
      [] error_type = "UNSUPPORTED_FORMAT" -> "_ERROR_UNSUPPORTED"

\* the error types of the calls
ErrorTypes == {"INVALID_FILE", "MISSING_DATE"}

\* the source directory and the file names of the Photos, a.jpg and
\* a_1.jpg: a file of the same name is written again once the one before
\* has been moved away
SourceDirectories == {"d1"}

Filenames_ ==
    { <<"a", ".", "j", "p", "g">>,
      <<"a", "_", "1", ".", "j", "p", "g">> }

\* os.path.splitext(filename): the extension starts at the last dot, a dot
\* at the very start does not count
os_path_splitext(filename) ==
    LET dots == { i \in 2..Len(filename) : filename[i] = "." }
        k == IF dots = {} THEN Len(filename) + 1
             ELSE CHOOSE i \in dots : \A j \in dots : j <= i
    IN  [ base_name |-> SubSeq(filename, 1, k - 1),
          extension |-> SubSeq(filename, k, Len(filename)) ]

\* the destination without the loop: the original name in any case
free_destination_unchecked(taken, split, name, counter) == name

\* "while os.path.exists(destination_path)": the name the loop ends with,
\* taken being the names in the error folder and name the one that is tried
RECURSIVE free_destination(_, _, _, _)
free_destination(taken, split, name, counter) ==
    IF name \notin taken THEN name
    ELSE free_destination(taken, split,
             split.base_name \o <<"_">> \o str_int(counter) \o split.extension,
             counter + 1)

\* the move of handle_error_photo for the file found at the path of photo,
\* to the name destination of folder: a file of that name is replaced.
\* error_log holds the folders that have an error_log.txt.
moved_to_error_folder(filesystem, folder, found, destination) ==
    [ filesystem EXCEPT
        !.folders = @ \cup {folder},
        !.files = @ \ {found},
        !.quarantined =
            { e \in @ : ~(e.folder = folder /\ e.name = destination) }
                \cup { [folder |-> folder, name |-> destination,
                        content |-> found.content] },
        !.error_log = @ \cup {folder} ]

\* ErrorHandlingService.handle_error_photo(photo, error_type, base_directory):
\* the error folder is made, the file is moved to the first name that is
\* free; shutil.move raises for a file that is not there, which gives False
handle_error_photo(photo, error_type, filesystem) ==
    LET folder == error_folders(error_type)
        taken == { e.name : e \in { q \in filesystem.quarantined : q.folder = folder } }
        there == { f \in filesystem.files :
                     f.dir = photo.dir /\ f.name = photo.name }
    IN  IF there = {}
        THEN [ value |-> FALSE,
               filesystem |-> [filesystem EXCEPT !.folders = @ \cup {folder}] ]
        ELSE [ value |-> TRUE,
               filesystem |->
                   moved_to_error_folder(filesystem, folder,
                       CHOOSE f \in there : TRUE,
                       free_destination(taken, os_path_splitext(photo.name),
                                        photo.name, 1)) ]

\* a file is written to a source directory under a name that is free there
file_written ==
    /\ pc = "quarantine"
    /\ locals.written < MaxWritten
    /\ \E dir \in SourceDirectories, name \in Filenames_ :
           /\ \A f \in fs.files : ~(f.dir = dir /\ f.name = name)
           /\ fs' = [fs EXCEPT !.files = @ \cup { [dir |-> dir, name |-> name,
                                                   content |-> locals.written + 1] }]
    /\ locals' = [locals EXCEPT !.written = @ + 1]
    /\ ret' = [op |-> "write", raised |-> "", value |-> <<>>]
    /\ UNCHANGED <<photos, metadata_cache, meta, queried, query_count,
                   scheme, groups, flags, group_metadata, operations, pc>>

\* the state after handle_error_photo gave r for photo
error_photo_handled(photo, error_type, r) ==
    /\ fs' = r.filesystem
    /\ ret' = [op |-> "handle_error_photo", raised |-> "", value |-> <<r.value>>]
    /\ locals' = [locals EXCEPT !.photo = photo, !.error_type = error_type]

\* a call of handle_error_photo for a Photo of some file name, whose file
\* may be there or not
handle_error_photo_call ==
    /\ pc = "quarantine"
    /\ \E dir \in SourceDirectories, name \in Filenames_, error_type \in ErrorTypes :
           error_photo_handled([dir |-> dir, name |-> name], error_type,
               handle_error_photo([dir |-> dir, name |-> name], error_type, fs))
    /\ UNCHANGED <<photos, metadata_cache, meta, queried, query_count,
                   scheme, groups, flags, group_metadata, operations, pc>>

InitQuarantine ==
    /\ photos = <<>>
    /\ metadata_cache = <<>>
    /\ meta = <<1, 1, 1>>
    /\ queried = <<>>
    /\ query_count = 0
    /\ ret = [op |-> "init", raised |-> "", value |-> <<>>]
    /\ scheme = <<>>
    /\ groups = <<>>
    /\ flags = NoFlags
    /\ group_metadata = <<>>
    /\ operations = <<>>
    /\ pc = "quarantine"
    /\ locals = [written |-> 0, photo |-> <<>>, error_type |-> ""]
    /\ fs = [files |-> {}, folders |-> {}, quarantined |-> {}, error_log |-> {}]

NextQuarantine ==
    \/ file_written
    \/ handle_error_photo_call

SpecQuarantine == InitQuarantine /\ [][NextQuarantine]_vars

\* C28: handle_error_photo never replaces a file of the error folder: every
\* file in an error folder stays there under its name whatever is called
\* next, so every file that was moved there is kept, each under a name of
\* its own; a call for a file that is there gives True and moves it to its
\* own name when that is free in the folder and else to <base>_<k><ext>
\* with the least k >= 1 that is free; a call for a file that is not there
\* gives False and leaves the source files and the error folders as they
\* were.
C28_QuarantineNeverOverwrites ==
    /\ [] ( \A d, e \in fs.quarantined :
                (d.folder = e.folder /\ d.name = e.name) => d = e )
    /\ [] ( \A d, e \in fs.quarantined : d.content = e.content => d = e )
    /\ [][ /\ fs.quarantined \subseteq fs'.quarantined
           /\ ret'.op = "handle_error_photo" =>
                LET photo == locals'.photo
                    folder == error_folders(locals'.error_type)
                    split == os_path_splitext(photo.name)
                    numbered(k) == split.base_name \o <<"_">> \o str_int(k)
                                       \o split.extension
                    taken(name) == \E e \in fs.quarantined :
                                       e.folder = folder /\ e.name = name
                    there == { f \in fs.files :
                                 f.dir = photo.dir /\ f.name = photo.name }
                IN  IF there = {}
                    THEN /\ ret'.value = <<FALSE>>
                         /\ fs'.quarantined = fs.quarantined
                         /\ fs'.files = fs.files
                    ELSE /\ ret'.value = <<TRUE>>
                         /\ fs'.files = fs.files \ there
                         /\ \E e \in fs'.quarantined \ fs.quarantined :
                                /\ fs'.quarantined = fs.quarantined \cup {e}
                                /\ e.folder = folder
                                /\ \E f \in there : e.content = f.content
                                /\ \/ e.name = photo.name /\ ~taken(photo.name)
                                   \/ /\ taken(photo.name)
                                      /\ \E k \in 1..MaxWritten :
                                             /\ e.name = numbered(k)
                                             /\ \A j \in 1..(k - 1) : taken(numbered(j))
         ]_vars

\* three files named a.jpg and one named a_1.jpg are in one error folder,
\* each under a name of its own
C28_Witness ==
    /\ ret.op = "handle_error_photo"
    /\ ret.value = <<TRUE>>
    /\ Cardinality({ e \in fs.quarantined : e.folder = "_ERROR_INVALID" }) = 4
    /\ \E e \in fs.quarantined :
           /\ e.folder = "_ERROR_INVALID"
           /\ e.name = <<"a", "_", "1", "_", "1", ".", "j", "p", "g">>
    /\ \E e \in fs.quarantined :
           /\ e.folder = "_ERROR_INVALID"
           /\ e.name = <<"a", "_", "2", ".", "j", "p", "g">>

(***************************************************************************)
(* main.py: the rename command, which plans, numbers and executes on its   *)
(* own                                                                     *)
(***************************************************************************)
\* datetime.fromtimestamp(photo.absolute_path.stat().st_mtime): the files of
\* the model were all last written at this time
mtime(path) == datetime(3)

\* _generate_base_filename(scheme, photo, group_metadata) of main.py, for the
\* fields the metadata records of the model have
main_generate_base_filename(sch, photo, gm) ==
    LET camera == gm.camera
        dates == gm.dates
        technical == gm.technical
        dt == IF dates.date_taken # 0 THEN datetime(dates.date_taken)
              ELSE mtime(photo.absolute_path)
        replacements ==
            << <<"{date}", strftime(dt, "%Y-%m-%d")>>,
               <<"{datetime}", strftime(dt, "%Y-%m-%d_%H-%M-%S")>>,
               <<"{year}", strftime(dt, "%Y")>>,
               <<"{month}", strftime(dt, "%m")>>,
               <<"{day}", strftime(dt, "%d")>>,
               <<"{hour}", strftime(dt, "%H")>>,
               <<"{minute}", strftime(dt, "%M")>>,
               <<"{second}", strftime(dt, "%S")>>,
               <<"{camera_make}", _safe_filename(Chars(
                    IF camera.make # "" THEN camera.make ELSE "Unknown"))>>,
               <<"{lens_model}", _safe_filename(Chars(
                    IF camera.lens_model # "" THEN camera.lens_model ELSE "Unknown"))>>,
               <<"{iso}", IF technical.iso # 0 THEN str_int(technical.iso)
                          ELSE Chars("Unknown")>>,
               <<"{basename}", Chars(photo.basename)>> >>
    IN  clean_up_the_filename(apply_replacements(sch, replacements, 1))

\* the operations the first pass of rename adds for one group, gm being the
\* record extract_metadata gave: one per Photo, each with the name rendered
\* for that Photo
main_operations_of(group, destination, sch, gm) ==
    [ i \in 1..Len(group.photos) |->
        group_operations_of(group, destination,
            main_generate_base_filename(sch, group.photos[i], gm))[i] ]

\* the first pass of rename: the loop over the groups of the manager
RECURSIVE main_first_pass_loop(_, _, _, _, _)
\* the body of the loop for group gs[k], whose extract_metadata call gave
\* extracted: the exception leaves the loop
main_first_pass_step(gs, destination, sch, k, rename_operations, extracted) ==
    IF extracted.raised # ""
    THEN [raised |-> extracted.raised, value |-> <<>>]
    ELSE main_first_pass_loop(gs, destination, sch, k + 1,
             rename_operations
                 \o main_operations_of(gs[k], destination, sch, extracted.value[1]))

main_first_pass_loop(gs, destination, sch, k, rename_operations) ==
    IF k > Len(gs) THEN [raised |-> "", value |-> rename_operations]
    ELSE main_first_pass_step(gs, destination, sch, k, rename_operations,
             group_extract_metadata(gs[k]))

\* the place, from 1, of operation i among the operations at the indices in
\* members: "for i, operation in enumerate(operations, 1)"
enumerate_from_1(members, i) == Cardinality({ j \in members : j <= i })

\* _apply_explicit_sequences of main.py: the operations of one pattern are
\* numbered one by one in the order of the list
main_apply_explicit_sequences(ops, sequence_digits) ==
    with_new_paths(ops, 1..Len(ops),
        [ i \in 1..Len(ops) |->
            explicit_final_path(ops[i], ops[i].base_filename,
                enumerate_from_1(explicit_members(ops, ops[i].base_filename), i),
                sequence_digits) ])

\* the key of filename_groups: f"{base_path}{extension}"
main_full_path(op) == op.base_new_path \o Chars(op.photo.extension)

\* the operations with the full path of operation i
main_filename_group(ops, i) ==
    { j \in 1..Len(ops) : main_full_path(ops[j]) = main_full_path(ops[i]) }

\* _apply_collision_sequences of main.py: the operations with one full path
\* are numbered one by one in the order of the list, an operation alone
\* with its full path keeps it
main_apply_collision_sequences(ops, sequence_digits) ==
    with_new_paths(ops, 1..Len(ops),
        [ i \in 1..Len(ops) |->
            IF Cardinality(main_filename_group(ops, i)) = 1
            THEN Path(main_full_path(ops[i]))
            ELSE Path(ops[i].base_new_path \o <<"_">>
                      \o format_0d(enumerate_from_1(main_filename_group(ops, i), i),
                                   sequence_digits)
                      \o Chars(ops[i].photo.extension)) ])

\* _apply_sequences_to_operations of main.py
main_apply_sequences_to_operations(ops, sequence_digits) ==
    IF \E i \in 1..Len(ops) :
           \E c \in 1..Len(ops[i].base_filename) : ops[i].base_filename[c] = "{sequence}"
    THEN main_apply_explicit_sequences(ops, sequence_digits)
    ELSE main_apply_collision_sequences(ops, sequence_digits)

\* op['new_path'].relative_to(destination) raises ValueError for a path that
\* does not continue the destination
relative_to_raises(path, destination) ==
    ~( /\ Len(path) > Len(destination)
       /\ SubSeq(path, 1, Len(destination) + 1) = destination \o <<"/">> )

\* the handlers of rename: the message and sys.exit(1)
main_exit ==
    /\ ret' = [op |-> "rename", raised |-> "SystemExit", value |-> <<1>>]
    /\ pc' = "main_exit"

\* manager = PhotoGroupManager.load_from_json(database)
main_load ==
    /\ pc = "main_start"
    /\ groups' = fs.database
    /\ pc' = "main_mkdir"
    /\ UNCHANGED <<photos, metadata_cache, meta, queried, query_count, ret,
                   scheme, flags, group_metadata, operations, locals, fs>>

\* if not dry_run: destination.mkdir(parents=True, exist_ok=True)
main_mkdir ==
    /\ pc = "main_mkdir"
    /\ fs' = IF ~flags.dry_run THEN [fs EXCEPT !.destination_created = TRUE] ELSE fs
    /\ pc' = "main_validate"
    /\ UNCHANGED <<photos, metadata_cache, meta, queried, query_count, ret,
                   scheme, groups, flags, group_metadata, operations, locals>>

\* _validate_naming_scheme(scheme)
main_validate ==
    /\ pc = "main_validate"
    /\ IF invalid_placeholders(scheme) # {}
       THEN main_exit
       ELSE /\ ret' = ret
            /\ pc' = "main_first_pass"
    /\ UNCHANGED <<photos, metadata_cache, meta, queried, query_count,
                   scheme, groups, flags, group_metadata, operations, locals, fs>>

\* the end of the first pass with outcome r
main_planned(r) ==
    IF r.raised # ""
    THEN /\ main_exit
         /\ operations' = operations
    ELSE /\ operations' = r.value
         /\ ret' = ret
         /\ pc' = "main_sequence"

\* the first pass: base filenames without sequences
main_first_pass ==
    /\ pc = "main_first_pass"
    /\ main_planned(main_first_pass_loop(groups, Destination, scheme, 1, <<>>))
    /\ UNCHANGED <<photos, metadata_cache, meta, queried, query_count,
                   scheme, groups, flags, group_metadata, locals, fs>>

\* the second pass: _apply_sequences_to_operations(rename_operations, ...)
main_second_pass ==
    /\ pc = "main_sequence"
    /\ operations' = main_apply_sequences_to_operations(operations, flags.sequence_digits)
    /\ pc' = "main_execute"
    /\ UNCHANGED <<photos, metadata_cache, meta, queried, query_count, ret,
                   scheme, groups, flags, group_metadata, locals, fs>>

\* the state after the loop over the operations gave r
main_executed(r) ==
    /\ fs' = r.filesystem
    /\ groups' = groups_after_moves(groups, operations, r.done, flags.copy_mode)
    /\ locals' = [locals EXCEPT !.processed_count = <<r.processed_count>>]
    /\ ret' = ret
    /\ pc' = "main_save"

\* the listing of a dry run, which names the first ten destinations
\* relative to the destination directory, or the loop that copies or moves
main_execute ==
    /\ pc = "main_execute"
    /\ IF flags.dry_run
       THEN /\ IF \E i \in 1..Len(operations) :
                      i <= 10 /\ relative_to_raises(operations[i].new_path[1], Destination)
               THEN main_exit
               ELSE /\ ret' = [op |-> "rename", raised |-> "", value |-> <<0>>]
                    /\ pc' = "main_done"
            /\ UNCHANGED <<groups, locals, fs>>
       ELSE main_executed(_execute_rename_operations(operations, flags.copy_mode, fs))
    /\ UNCHANGED <<photos, metadata_cache, meta, queried, query_count,
                   scheme, flags, group_metadata, operations>>

\* the state after save_to_json gave outcome saved
main_saved(saved) ==
    /\ fs' = saved.filesystem
    /\ IF saved.raised # ""
       THEN main_exit
       ELSE /\ ret' = [op |-> "rename", raised |-> "", value |-> <<0>>]
            /\ pc' = "main_done"

\* if not copy: manager.save_to_json(database)
main_save ==
    /\ pc = "main_save"
    /\ IF ~flags.copy_mode
       THEN main_saved(save_to_json(groups, fs,
                [ g \in 1..Len(groups) |-> group_extract_metadata(groups[g]) ]))
       ELSE /\ ret' = [op |-> "rename", raised |-> "", value |-> <<0>>]
            /\ pc' = "main_done"
            /\ fs' = fs
    /\ UNCHANGED <<photos, metadata_cache, meta, queried, query_count,
                   scheme, groups, flags, group_metadata, operations, locals>>

\* the groups of the scenarios with their aggregate records at hand:
\* vacation is the earlier one; and vacation without its sidecar
ScenarioRecord(date_taken) ==
    [ camera      |-> CameraInfoWithSource,
      dates       |-> [DateInfoWithSource EXCEPT !.date_taken = date_taken],
      technical   |-> TechnicalInfoWithSource,
      keywords    |-> <<>>,
      source_file |-> <<"group:">> ]

VacationAtHand == PlanGroup(Vacation, ScenarioRecord(1))

BeachAtHand == PlanGroup(Beach, ScenarioRecord(2))

BeachAloneAtHand ==
    PlanGroup(PhotoGroup("beach", <<File("d1", "beach", ".jpg")>>), ScenarioRecord(2))

MainGroupLists ==
    { <<VacationAtHand, BeachAtHand>>, <<BeachAtHand, VacationAtHand>>,
      <<VacationAtHand, BeachAloneAtHand>>, <<VacationAtHand>> }

\* a run of the command from its start on a database, and the passes of the
\* command from the first one on for groups whose records are at hand
InitMain ==
    /\ photos = <<>>
    /\ metadata_cache = <<>>
    /\ meta \in Backends
    /\ queried = <<>>
    /\ query_count = 0
    /\ ret = [op |-> "init", raised |-> "", value |-> <<>>]
    /\ \E dry_run \in BOOLEAN, copy_mode \in BOOLEAN :
           flags = [sequence_digits |-> 3, dry_run |-> dry_run,
                    copy_mode |-> copy_mode, skip_invalid |-> FALSE]
    /\ group_metadata = <<>>
    /\ operations = <<>>
    /\ locals = NoLocals
    /\ \/ /\ pc = "main_start"
          /\ scheme \in Schemes \cup ScenarioSchemes
          /\ groups = <<>>
          /\ \E database \in GroupLists \cup ScenarioGroupLists, vanished \in VanishedSets :
                 fs = [InitialFs(database) EXCEPT !.vanished = vanished]
       \/ /\ pc = "main_first_pass"
          /\ scheme \in PlanSchemes \cup ScenarioSchemes
          /\ invalid_placeholders(scheme) = {}
          /\ groups \in MainGroupLists
          /\ fs = [InitialFs(groups) EXCEPT !.destination_created = ~flags.dry_run]

NextMain ==
    \/ main_load
    \/ main_mkdir
    \/ main_validate
    \/ main_first_pass
    \/ main_second_pass
    \/ main_execute
    \/ main_save

SpecMain == InitMain /\ [][NextMain]_vars

InitCommands == InitRename \/ InitMain

NextCommands == NextRename \/ NextMain

SpecCommands == InitCommands /\ [][NextCommands]_vars

\* C24: a dry run, of rename_photos and of the rename command, for every
\* scheme and every value of skip_invalid and copy_mode, makes no directory
\* (destination, subdirectory or error folder), moves, copies and
\* quarantines no file, does not write the database, and leaves every Photo
\* of the manager with the path and the history it was loaded with.
C24_DryRunChangesNothing ==
    flags.dry_run =>
        /\ ~fs.destination_created
        /\ fs.error_folders = {}
        /\ fs.new_dirs = {}
        /\ fs.moved = {}
        /\ fs.copied = {}
        /\ ~fs.database_written
        /\ pc \notin {"start", "main_start"} =>
               /\ Len(groups) = Len(fs.database)
               /\ \A g \in 1..Len(groups) : groups[g].photos = fs.database[g].photos

\* a dry run of rename_photos that came to its end with groups to
\* quarantine, or one of the command that listed destinations
C24_Witness ==
    /\ flags.dry_run
    /\ \/ /\ pc = "done"
          /\ flags.skip_invalid
          /\ fs.database # <<>>
          /\ ret.raised = ""
       \/ /\ pc = "main_done"
          /\ operations # <<>>

====
